---------------------------- MODULE Spec2Model ----------------------------
(***************************************************************************)
(* Hybrid markdown preview for CodeMirror (lib/extensions/hybrid-preview.js)*)
(*                                                                         *)
(* A document is a sequence of lines, a line a sequence of one-character   *)
(* strings.  The block indexer (computeBlockRanges), the focus resolver    *)
(* (getFocusedLines) and the five decoration builders are operators        *)
(* computed the way the JavaScript computes them; the editor (state field  *)
(* blockRangesField and the five view plugins) is the state machine.       *)
(***************************************************************************)
EXTENDS Integers, Sequences, FiniteSets, TLC

VARIABLES
    phase,              \* "new": nothing built; "state": EditorState created; "view": EditorView and its plugins created
    doc,                \* state.doc: the lines of the document
    selection,          \* state.selection.ranges: sequence of [from, to]
    hasFocus,           \* view.hasFocus
    visibleRanges,      \* view.visibleRanges: sequence of [from, to]
    blockRanges,        \* value of blockRangesField
    previewDecorations, \* hybridPreviewPlugin.decorations
    codeDecorations,    \* codeBlockDecorations.decorations
    tableDecorations,   \* tableDecorations.decorations
    mathDecorations,    \* mathBlockDecorations.decorations
    mermaidDecorations, \* mermaidBlockDecorations.decorations
    frontmatter,        \* blockRanges.frontmatter as the sheet reads it ([start |-> 0, end |-> 0]: none)
    panel,              \* backlinks panel: [created, docTitle, lastTitle, currentRequest, dom, domRequest, domTitle, pending]
    sheet,              \* frontmatter sheet plugin: [isOpen, content, scrollLocked, escHandler, opened, pairs, current, timers]
    click,              \* the last mousedown a widget handled: the widget, the event and what the handler requested
    mode,               \* read-only mode: the module flag, state.readOnly and editable of every view, the last call and the last transaction
    focusModeDecorations, \* focusModePlugin.decorations
    dom                 \* the DOM of the math and mermaid widgets: the wrappers drawn, the renders in flight, the last render settled

vars == <<phase, doc, selection, hasFocus, visibleRanges, blockRanges,
          previewDecorations, codeDecorations, tableDecorations,
          mathDecorations, mermaidDecorations, frontmatter, panel, sheet, click, mode,
          focusModeDecorations, dom>>

\* the editor proper: everything but the record of the handlers and the mode
editorVars == <<phase, doc, selection, hasFocus, visibleRanges, blockRanges,
                previewDecorations, codeDecorations, tableDecorations,
                mathDecorations, mermaidDecorations, frontmatter, panel, sheet,
                focusModeDecorations, dom>>

decorationVars == <<previewDecorations, codeDecorations, tableDecorations,
                    mathDecorations, mermaidDecorations, focusModeDecorations, dom>>

-----------------------------------------------------------------------------
(* Bounds of the model *)

\* longest document of the editing session (Spec)
MaxLines == 2
\* longest document handed to the indexer alone (SpecIndex)
MaxIndexLines == 4
\* longest document handed to the decoration builders (SpecRender)
MaxRenderLines == 3
\* longest document and most selection ranges handed to the focus resolver (SpecFocus)
MaxFocusLines == 3
MaxRanges == 2
\* longest document handed to the code and mermaid builders (SpecCode)
MaxCodeLines == 4
\* longest document handed to the plain-line builder (SpecPlain)
MaxPlainLines == 3
\* longest document handed to the frontmatter scans (SpecFrontmatter)
MaxFrontmatterLines == 4
\* most backlink requests issued by the panel (SpecPanel)
MaxRequests == 3
\* most times the frontmatter sheet is opened (SpecSheet)
MaxSheetOpens == 3
\* longest document whose widgets are clicked, and the widest widget in pixels (SpecClick)
MaxClickLines == 2
MaxWidth == 2
\* longest text of a widget handed to the proportional mapper alone (SpecMapper)
MaxTextLength == 3
\* longest document edited under read-only mode, and most editors sharing the module (SpecReadOnly)
MaxReadOnlyLines == 3
MaxViews == 2
\* longest document of diagrams and formulas, and most renders in flight (SpecDiagram)
MaxDiagramLines == 3
MaxRenders == 2
\* longest document of paragraphs under focus mode (SpecFocusMode)
MaxParagraphLines == 3
\* longest document whose block widgets are clicked after edits (SpecWrapper)
MaxWrapperLines == 3

-----------------------------------------------------------------------------
(* Text: JavaScript string operations on sequences of characters *)

Whitespace == {" ", "\t"}

RECURSIVE trimStart(_)
trimStart(s) ==
    IF s # <<>> /\ Head(s) \in Whitespace THEN trimStart(Tail(s)) ELSE s

RECURSIVE trimEnd(_)
trimEnd(s) ==
    IF s # <<>> /\ s[Len(s)] \in Whitespace THEN trimEnd(SubSeq(s, 1, Len(s) - 1)) ELSE s

trim(s) == trimEnd(trimStart(s))

startsWith(s, p) == Len(s) >= Len(p) /\ SubSeq(s, 1, Len(p)) = p

endsWith(s, p) == Len(s) >= Len(p) /\ SubSeq(s, Len(s) - Len(p) + 1, Len(s)) = p

slice(s, n) == SubSeq(s, n + 1, Len(s))

RECURSIVE join(_, _)
join(parts, sep) ==
    IF parts = <<>> THEN <<>>
    ELSE IF Len(parts) = 1 THEN parts[1]
    ELSE parts[1] \o sep \o join(Tail(parts), sep)

\* the backtick character U+0060, which a string literal of this language cannot hold
Backtick == "BACKTICK"
Fence == <<Backtick, Backtick, Backtick>>
MathDelimiter == <<"$", "$">>
Pipe == <<"|">>
Newline == <<"\n">>
MermaidLanguage == <<"m", "e", "r", "m", "a", "i", "d">>

-----------------------------------------------------------------------------
(* Document: line-addressable view with character offsets *)

\* doc.line(n).from: lines are joined by one line break each
RECURSIVE lineFrom(_, _)
lineFrom(d, n) == IF n <= 1 THEN 0 ELSE lineFrom(d, n - 1) + Len(d[n - 1]) + 1

lineTo(d, n) == lineFrom(d, n) + Len(d[n])

docLength(d) == lineTo(d, Len(d))

\* doc.lineAt(pos).number
lineAt(d, pos) == CHOOSE n \in 1..Len(d) : lineFrom(d, n) <= pos /\ pos <= lineTo(d, n)

-----------------------------------------------------------------------------
(* Block indexer *)

RECURSIVE codeScan(_, _, _, _, _, _)
codeScan(d, i, ranges, inCodeBlock, blockStart, blockLanguage) ==
    IF i > Len(d)
    THEN IF inCodeBlock
         THEN Append(ranges, [start |-> blockStart, end |-> Len(d), language |-> blockLanguage])
         ELSE ranges
    ELSE IF startsWith(d[i], Fence)
         THEN IF ~inCodeBlock
              THEN codeScan(d, i + 1, ranges, TRUE, i, trim(slice(d[i], 3)))
              ELSE codeScan(d, i + 1,
                            Append(ranges, [start |-> blockStart, end |-> i, language |-> blockLanguage]),
                            FALSE, blockStart, <<>>)
         ELSE codeScan(d, i + 1, ranges, inCodeBlock, blockStart, blockLanguage)

\* faulty variant: the scan tests the trimmed text of each line
computeCodeBlockRangesTrimmed(d) ==
    codeScan([k \in DOMAIN d |-> trim(d[k])], 1, <<>>, FALSE, 0, <<>>)

\* faulty variant: a fence left open at the end of the document emits nothing
computeCodeBlockRangesClosedOnly(d) ==
    SelectSeq(codeScan(d, 1, <<>>, FALSE, 0, <<>>),
              LAMBDA r : r.end # r.start /\ startsWith(d[r.end], Fence))

\* faulty variant: a fence left open emits a range ending one past the last line
computeCodeBlockRangesPastEnd(d) ==
    LET ranges == codeScan(d, 1, <<>>, FALSE, 0, <<>>)
    IN  [k \in DOMAIN ranges |->
            IF k = Len(ranges) /\ (ranges[k].end = ranges[k].start \/ ~startsWith(d[ranges[k].end], Fence))
            THEN [ranges[k] EXCEPT !.end = Len(d) + 1]
            ELSE ranges[k]]

computeCodeBlockRanges(d) == codeScan(d, 1, <<>>, FALSE, 0, <<>>)

\* mathStart = 0 stands for null
RECURSIVE mathScan(_, _, _, _, _)
mathScan(d, codeBlockLineSet, i, ranges, mathStart) ==
    IF i > Len(d) THEN ranges
    ELSE IF i \in codeBlockLineSet
         THEN mathScan(d, codeBlockLineSet, i + 1, ranges, 0)
         ELSE IF trim(d[i]) = MathDelimiter
              THEN IF mathStart = 0
                   THEN mathScan(d, codeBlockLineSet, i + 1, ranges, i)
                   ELSE mathScan(d, codeBlockLineSet, i + 1,
                                 Append(ranges, [start |-> mathStart, end |-> i]), 0)
              ELSE mathScan(d, codeBlockLineSet, i + 1, ranges, mathStart)

\* faulty variant: the delimiter test does not trim the line
computeMathBlockRangesUntrimmed(d, codeBlockLineSet) ==
    mathScan([k \in DOMAIN d |-> IF d[k] # MathDelimiter /\ trim(d[k]) = MathDelimiter
                                   THEN <<"x">> ELSE d[k]],
             codeBlockLineSet, 1, <<>>, 0)

\* faulty variant: code-block lines are scanned like any other line
computeMathBlockRangesThroughCode(d, codeBlockLineSet) == mathScan(d, {}, 1, <<>>, 0)

computeMathBlockRanges(d, codeBlockLineSet) == mathScan(d, codeBlockLineSet, 1, <<>>, 0)

isTableLine(text) == startsWith(trim(text), Pipe) /\ endsWith(trim(text), Pipe)

\* tableStart = 0 stands for null
RECURSIVE tableScan(_, _, _, _, _)
tableScan(d, codeBlockLineSet, i, ranges, tableStart) ==
    IF i > Len(d)
    THEN IF tableStart # 0
         THEN Append(ranges, [start |-> tableStart, end |-> Len(d)])
         ELSE ranges
    ELSE IF i \in codeBlockLineSet \/ ~isTableLine(d[i])
         THEN IF tableStart # 0
              THEN tableScan(d, codeBlockLineSet, i + 1,
                             Append(ranges, [start |-> tableStart, end |-> i - 1]), 0)
              ELSE tableScan(d, codeBlockLineSet, i + 1, ranges, 0)
         ELSE tableScan(d, codeBlockLineSet, i + 1, ranges,
                        IF tableStart = 0 THEN i ELSE tableStart)

\* faulty variant: a run still open after the last line is not emitted
computeTableRangesInteriorOnly(d, codeBlockLineSet) ==
    SelectSeq(tableScan(d, codeBlockLineSet, 1, <<>>, 0), LAMBDA r : r.end # Len(d))

computeTableRanges(d, codeBlockLineSet) == tableScan(d, codeBlockLineSet, 1, <<>>, 0)

buildLineSet(ranges) ==
    UNION {ranges[k].start .. ranges[k].end : k \in DOMAIN ranges}

computeBlockRanges(d) ==
    LET codeBlocks == computeCodeBlockRanges(d)
        codeBlockLines == buildLineSet(codeBlocks)
        mathBlocks == computeMathBlockRanges(d, codeBlockLines)
        tables == computeTableRanges(d, codeBlockLines)
        mermaidBlocks == SelectSeq(codeBlocks, LAMBDA r : r.language = MermaidLanguage)
    IN  [codeBlocks |-> codeBlocks,
         codeBlockLines |-> codeBlockLines,
         mathBlocks |-> mathBlocks,
         mathBlockLines |-> buildLineSet(mathBlocks),
         tables |-> tables,
         tableLines |-> buildLineSet(tables),
         mermaidBlocks |-> mermaidBlocks,
         mermaidBlockLines |-> buildLineSet(mermaidBlocks)]

\* the field's value before EditorState.create has run
NoBlockRanges ==
    [codeBlocks |-> <<>>, codeBlockLines |-> {}, mathBlocks |-> <<>>, mathBlockLines |-> {},
     tables |-> <<>>, tableLines |-> {}, mermaidBlocks |-> <<>>, mermaidBlockLines |-> {}]

-----------------------------------------------------------------------------
(* Frontmatter: the range the sheet reads from the block index, the title  *)
(* the backlinks panel extracts, and the two consumers                     *)

FrontmatterMarker == <<"-", "-", "-">>
DocumentEndMarker == <<".", ".", ".">>

NoFrontmatter == [start |-> 0, end |-> 0]

\* the first line from i on that is a closing marker ends the range
RECURSIVE frontmatterScan(_, _)
frontmatterScan(d, i) ==
    IF i > Len(d) THEN NoFrontmatter
    ELSE IF d[i] = FrontmatterMarker \/ d[i] = DocumentEndMarker
         THEN [start |-> 1, end |-> i]
         ELSE frontmatterScan(d, i + 1)

\* the frontmatter range of the block index: [1, n] when line 1 is exactly the
\* marker and n is the first later line that is exactly a closing marker
computeFrontmatterRange(d) ==
    IF d[1] # FrontmatterMarker THEN NoFrontmatter ELSE frontmatterScan(d, 2)

\* a title is <<text>>; null is the empty sequence
NoTitle == <<>>

TitleKey == <<"t", "i", "t", "l", "e", ":">>

\* line.match(/^title:\s*(.+)$/): the key, then at least one character
matchesTitle(line) == startsWith(line, TitleKey) /\ Len(line) > Len(TitleKey)

\* match[1].trim(), with one pair of enclosing quotes stripped
titleOfLine(line) ==
    LET title == trim(slice(line, Len(TitleKey)))
    IN  IF \/ startsWith(title, <<"\"">>) /\ endsWith(title, <<"\"">>)
           \/ startsWith(title, <<"'">>) /\ endsWith(title, <<"'">>)
        THEN SubSeq(title, 2, Len(title) - 1)
        ELSE title

\* the first title line among lines j .. i-1
RECURSIVE titleScan(_, _, _)
titleScan(d, j, i) ==
    IF j >= i THEN NoTitle
    ELSE IF matchesTitle(d[j]) THEN <<titleOfLine(d[j])>>
    ELSE titleScan(d, j + 1, i)

\* the first closing line from i on ends the frontmatter
RECURSIVE frontmatterEndScan(_, _)
frontmatterEndScan(d, i) ==
    IF i > Len(d) THEN NoTitle
    ELSE IF trim(d[i]) = FrontmatterMarker \/ trim(d[i]) = DocumentEndMarker
         THEN titleScan(d, 2, i)
         ELSE frontmatterEndScan(d, i + 1)

\* faulty variant: frontmatter that nothing closes runs to the end of the document
extractFrontmatterTitleUnterminated(d) ==
    IF Len(d) < 2 \/ trim(d[1]) # FrontmatterMarker THEN NoTitle
    ELSE IF \E i \in 2 .. Len(d) : trim(d[i]) \in {FrontmatterMarker, DocumentEndMarker}
         THEN frontmatterEndScan(d, 2)
         ELSE titleScan(d, 2, Len(d) + 1)

extractFrontmatterTitle(d) ==
    IF Len(d) < 2 THEN NoTitle
    ELSE IF trim(d[1]) # FrontmatterMarker THEN NoTitle
    ELSE frontmatterEndScan(d, 2)

\* the panel before its factory has run
NoPanel ==
    [created |-> FALSE, docTitle |-> NoTitle, lastTitle |-> NoTitle, currentRequest |-> 0,
     dom |-> "blank", domRequest |-> 0, domTitle |-> NoTitle, pending |-> {}]

\* the title the panel asks backlinks for: the configured docTitle, else the
\* title of the frontmatter
resolveTitle(p, d) ==
    IF p.docTitle # NoTitle /\ p.docTitle # << <<>> >> THEN p.docTitle
    ELSE extractFrontmatterTitle(d)

\* faulty variant: a request for every document change, whatever the title
fetchBacklinksEveryChange(p, d) ==
    LET title == resolveTitle(p, d)
    IN  IF title = NoTitle \/ title = << <<>> >>
        THEN [p EXCEPT !.lastTitle = title, !.dom = "None",
                       !.domRequest = 0, !.domTitle = NoTitle]
        ELSE [p EXCEPT !.lastTitle = title, !.dom = "Loading",
                       !.domRequest = 0, !.domTitle = NoTitle,
                       !.currentRequest = p.currentRequest + 1,
                       !.pending = @ \cup {[requestId |-> p.currentRequest + 1,
                                            title |-> title]}]

\* fetchBacklinks up to its await, with a resolver configured:
\* nothing when the title is the last handled one, the empty list for no
\* title, else the loading state and a new request.  dom is what the panel
\* shows; domRequest and domTitle name the request whose response it shows
\* (0: it shows no response); pending holds the requests awaiting a response
fetchBacklinks(p, d) ==
    LET title == resolveTitle(p, d)
    IN  IF title = p.lastTitle THEN p
        ELSE IF title = NoTitle \/ title = << <<>> >>
             THEN [p EXCEPT !.lastTitle = title, !.dom = "None",
                            !.domRequest = 0, !.domTitle = NoTitle]
             ELSE [p EXCEPT !.lastTitle = title, !.dom = "Loading",
                            !.domRequest = 0, !.domTitle = NoTitle,
                            !.currentRequest = p.currentRequest + 1,
                            !.pending = @ \cup {[requestId |-> p.currentRequest + 1,
                                                 title |-> title]}]

\* faulty variant: every response is rendered, whatever its request
settleRequestUnguarded(p, r, ok) ==
    [p EXCEPT !.pending = @ \ {r},
              !.dom = IF ok THEN "Result" ELSE "None",
              !.domRequest = r.requestId, !.domTitle = r.title]

\* fetchBacklinks after its await: request r resolves (ok) or rejects; the
\* backlinks, or the empty list, are rendered only for the latest request
settleRequest(p, r, ok) ==
    IF r.requestId = p.currentRequest
    THEN [p EXCEPT !.pending = @ \ {r},
                   !.dom = IF ok THEN "Result" ELSE "None",
                   !.domRequest = r.requestId, !.domTitle = r.title]
    ELSE [p EXCEPT !.pending = @ \ {r}]

NoContent == [kind |-> "none", yamlContent |-> <<>>, contentFrom |-> 0, contentTo |-> 0, blockFrom |-> 0]

\* the plugin after its constructor, the sheet closed.  Each open() makes a
\* new sheet/backdrop pair, named by its number: opened counts them, pairs
\* holds the ones in view.dom, current is the one this.sheet and this.backdrop
\* refer to ({}: null), timers the pairs a removal timer holds; scrollLocked is
\* overflow hidden on the scroller, escHandler the keydown listener on view.dom
ClosedSheet ==
    [isOpen |-> FALSE, content |-> NoContent, scrollLocked |-> FALSE, escHandler |-> FALSE,
     opened |-> 0, pairs |-> {}, current |-> {}, timers |-> {}]

\* faulty variant: one timer handle, which a later close overwrites
closeSingleTimer(s) ==
    [s EXCEPT !.isOpen = FALSE, !.content = NoContent, !.scrollLocked = FALSE,
              !.escHandler = FALSE, !.timers = s.current, !.current = {}]

\* close(): scroll unlocked, the handler removed, the pair handed to a
\* 200 ms timer of its own and the references dropped
close(s) ==
    [s EXCEPT !.isOpen = FALSE, !.content = NoContent, !.scrollLocked = FALSE,
              !.escHandler = FALSE, !.timers = @ \cup s.current, !.current = {}]

\* destroy(): an open sheet is taken down at once
destroy(s) ==
    IF s.isOpen
    THEN [s EXCEPT !.escHandler = FALSE, !.pairs = @ \ s.current, !.scrollLocked = FALSE]
    ELSE s

\* buildContent: the empty state, or the property table of the lines between the markers
buildContent(d, fm) ==
    IF fm = NoFrontmatter
    THEN [NoContent EXCEPT !.kind = "empty"]
    ELSE LET hasContent == fm.end - fm.start > 1
             contentFrom == IF hasContent THEN lineFrom(d, fm.start + 1) ELSE lineTo(d, fm.start) + 1
             contentTo == IF hasContent THEN lineTo(d, fm.end - 1) ELSE contentFrom
         IN  [kind |-> "properties",
              yamlContent |-> join(SubSeq(d, fm.start + 1, fm.end - 1), Newline),
              contentFrom |-> contentFrom,
              contentTo |-> contentTo,
              blockFrom |-> lineFrom(d, fm.start)]

-----------------------------------------------------------------------------
(* Focus resolver *)

RECURSIVE addFocusedLines(_, _, _)
addFocusedLines(state, k, focused) ==
    IF k > Len(state.selection) THEN focused
    ELSE LET startLine == lineAt(state.doc, state.selection[k].from)
             endLine == lineAt(state.doc, state.selection[k].to)
         IN  addFocusedLines(state, k + 1, focused \cup (startLine .. endLine))

\* faulty variant: only the first and the last line of each range are added
getFocusedLinesEndpointsOnly(state) ==
    UNION {{lineAt(state.doc, state.selection[k].from), lineAt(state.doc, state.selection[k].to)} :
           k \in DOMAIN state.selection}

getFocusedLines(state) == addFocusedLines(state, 1, {})

-----------------------------------------------------------------------------
(* Decorations.  A decoration is [kind, from, to, class, widget]:          *)
(* Decoration.line({class}).range(from) has kind "line" and to = from;     *)
(* Decoration.replace({widget}).range(from, to) has kind "replace", and    *)
(* Decoration.replace({}) carries NoWidget (the span is elided).           *)

NoWidget == [type |-> "none", content |-> <<>>, language |-> <<>>, from |-> 0, to |-> 0]

lineDecoration(class, from) ==
    [kind |-> "line", from |-> from, to |-> from, class |-> class, widget |-> NoWidget]

replaceDecoration(widget, from, to) ==
    [kind |-> "replace", from |-> from, to |-> to, class |-> "", widget |-> widget]

MarkdownPreviewWidget(content, from, to) ==
    [type |-> "MarkdownPreviewWidget", content |-> content, language |-> <<>>, from |-> from, to |-> to]

HighlightedCodeWidget(content, language, from, to) ==
    [type |-> "HighlightedCodeWidget", content |-> content, language |-> language, from |-> from, to |-> to]

TableWidget(rows, from, to) ==
    [type |-> "TableWidget", content |-> rows, language |-> <<>>, from |-> from, to |-> to]

MathBlockWidget(content, from, to) ==
    [type |-> "MathBlockWidget", content |-> content, language |-> <<>>, from |-> from, to |-> to]

MermaidBlockWidget(content, from, to) ==
    [type |-> "MermaidBlockWidget", content |-> content, language |-> <<>>, from |-> from, to |-> to]

\* faulty variant: the focus flag of the view is not consulted
focusedLinesOfSelection(view) == getFocusedLines(view)

\* the focused-line set every builder starts from
focusedLinesOf(view) == IF view.hasFocus THEN getFocusedLines(view) ELSE {}

\* lines of the visible ranges
visibleLines(view) ==
    UNION {lineAt(view.doc, view.visibleRanges[k].from) .. lineAt(view.doc, view.visibleRanges[k].to) :
           k \in DOMAIN view.visibleRanges}

\* faulty variant: only lines of length zero count as empty
buildDecorationsEmptyOnly(view, ranges) ==
    LET focusedLines == focusedLinesOf(view)
        d == view.doc
    IN  {replaceDecoration(MarkdownPreviewWidget(d[i], lineFrom(d, i), lineTo(d, i)),
                           lineFrom(d, i), lineTo(d, i)) :
         i \in {j \in visibleLines(view) :
                  /\ j \notin focusedLines
                  /\ j \notin ranges.codeBlockLines
                  /\ j \notin ranges.tableLines
                  /\ j \notin ranges.mathBlockLines
                  /\ d[j] # <<>>}}

buildDecorations(view, ranges) ==
    LET focusedLines == focusedLinesOf(view)
        d == view.doc
    IN  {replaceDecoration(MarkdownPreviewWidget(d[i], lineFrom(d, i), lineTo(d, i)),
                           lineFrom(d, i), lineTo(d, i)) :
         i \in {j \in visibleLines(view) :
                  /\ j \notin focusedLines
                  /\ j \notin ranges.codeBlockLines
                  /\ j \notin ranges.tableLines
                  /\ j \notin ranges.mathBlockLines
                  /\ trim(d[j]) # <<>>}}

\* some line of the range is in the focused-line set
\* faulty variant: a block counts as focused only through its first line
rangeFocusedFirstLine(range, focusedLines) == range.start \in focusedLines
rangeFocused(range, focusedLines) == \E j \in range.start .. range.end : j \in focusedLines

\* faulty variant: highlighting is withheld from the whole focused block
codeLineDecorationsBlockRaw(view, range, focusedLines, i) ==
    LET d == view.doc
        blockFocused == rangeFocused(range, focusedLines)
        hasContent == range.end - range.start > 1
        isFence == i = range.start \/ i = range.end
        lineClass == IF blockFocused THEN "cm-code-block-line cm-code-block-focused"
                     ELSE "cm-code-block-line"
    IN  IF isFence /\ ~blockFocused /\ hasContent
        THEN {replaceDecoration(NoWidget, lineFrom(d, i), lineTo(d, i))}
        ELSE {lineDecoration(lineClass, lineFrom(d, i))}
             \cup (IF ~isFence /\ ~blockFocused /\ Len(d[i]) > 0
                   THEN {replaceDecoration(
                             HighlightedCodeWidget(d[i], range.language, lineFrom(d, i), lineTo(d, i)),
                             lineFrom(d, i), lineTo(d, i))}
                   ELSE {})

\* faulty variant: the highlight widget is built without the block's language
codeLineDecorationsNoLanguage(view, range, focusedLines, i) ==
    LET d == view.doc
        blockFocused == rangeFocused(range, focusedLines)
        hasContent == range.end - range.start > 1
        isFence == i = range.start \/ i = range.end
        lineClass == IF blockFocused THEN "cm-code-block-line cm-code-block-focused"
                     ELSE "cm-code-block-line"
        isFocused == i \in focusedLines
    IN  IF isFence /\ ~blockFocused /\ hasContent
        THEN {replaceDecoration(NoWidget, lineFrom(d, i), lineTo(d, i))}
        ELSE {lineDecoration(lineClass, lineFrom(d, i))}
             \cup (IF ~isFence /\ ~isFocused /\ Len(d[i]) > 0
                   THEN {replaceDecoration(
                             HighlightedCodeWidget(d[i], <<>>, lineFrom(d, i), lineTo(d, i)),
                             lineFrom(d, i), lineTo(d, i))}
                   ELSE {})

\* faulty variant: the fences of an unfocused block are elided whatever lies between them
codeLineDecorationsAlwaysElide(view, range, focusedLines, i) ==
    LET d == view.doc
        blockFocused == rangeFocused(range, focusedLines)
        isFence == i = range.start \/ i = range.end
        lineClass == IF blockFocused THEN "cm-code-block-line cm-code-block-focused"
                     ELSE "cm-code-block-line"
        isFocused == i \in focusedLines
    IN  IF isFence /\ ~blockFocused
        THEN {replaceDecoration(NoWidget, lineFrom(d, i), lineTo(d, i))}
        ELSE {lineDecoration(lineClass, lineFrom(d, i))}
             \cup (IF ~isFence /\ ~isFocused /\ Len(d[i]) > 0
                   THEN {replaceDecoration(
                             HighlightedCodeWidget(d[i], range.language, lineFrom(d, i), lineTo(d, i)),
                             lineFrom(d, i), lineTo(d, i))}
                   ELSE {})

codeLineDecorations(view, range, focusedLines, i) ==
    LET d == view.doc
        blockFocused == rangeFocused(range, focusedLines)
        hasContent == range.end - range.start > 1
        isFence == i = range.start \/ i = range.end
        lineClass == IF blockFocused THEN "cm-code-block-line cm-code-block-focused"
                     ELSE "cm-code-block-line"
        isFocused == i \in focusedLines
    IN  IF isFence /\ ~blockFocused /\ hasContent
        THEN {replaceDecoration(NoWidget, lineFrom(d, i), lineTo(d, i))}
        ELSE {lineDecoration(lineClass, lineFrom(d, i))}
             \cup (IF ~isFence /\ ~isFocused /\ Len(d[i]) > 0
                   THEN {replaceDecoration(
                             HighlightedCodeWidget(d[i], range.language, lineFrom(d, i), lineTo(d, i)),
                             lineFrom(d, i), lineTo(d, i))}
                   ELSE {})

\* faulty variant: mermaid blocks are not skipped
buildCodeBlockDecorationsAllBlocks(view, ranges) ==
    LET focusedLines == focusedLinesOf(view)
    IN  UNION {UNION {codeLineDecorations(view, ranges.codeBlocks[k], focusedLines, i) :
                      i \in ranges.codeBlocks[k].start .. ranges.codeBlocks[k].end} :
               k \in DOMAIN ranges.codeBlocks}

buildCodeBlockDecorations(view, ranges) ==
    LET focusedLines == focusedLinesOf(view)
    IN  UNION {UNION {codeLineDecorations(view, ranges.codeBlocks[k], focusedLines, i) :
                      i \in ranges.codeBlocks[k].start .. ranges.codeBlocks[k].end} :
               k \in {n \in DOMAIN ranges.codeBlocks : ranges.codeBlocks[n].language # MermaidLanguage}}

\* lines hidden behind a block widget: class cm-hidden-line and an empty replacement
hiddenLines(d, first, last) ==
    UNION {{lineDecoration("cm-hidden-line", lineFrom(d, i)),
            replaceDecoration(NoWidget, lineFrom(d, i), lineTo(d, i))} : i \in first .. last}

\* faulty variant: the widget is built from the first row alone
tableRangeDecorationsFirstRowOnly(view, range, focusedLines) ==
    LET d == view.doc
    IN  IF rangeFocused(range, focusedLines)
        THEN {lineDecoration("cm-table-line", lineFrom(d, i)) : i \in range.start .. range.end}
        ELSE {replaceDecoration(
                  TableWidget(SubSeq(d, range.start, range.start),
                              lineFrom(d, range.start), lineTo(d, range.start)),
                  lineFrom(d, range.start), lineTo(d, range.start))}
             \cup hiddenLines(d, range.start + 1, range.end)

tableRangeDecorations(view, range, focusedLines) ==
    LET d == view.doc
    IN  IF rangeFocused(range, focusedLines)
        THEN {lineDecoration("cm-table-line", lineFrom(d, i)) : i \in range.start .. range.end}
        ELSE {replaceDecoration(
                  TableWidget(SubSeq(d, range.start, range.end),
                              lineFrom(d, range.start), lineTo(d, range.start)),
                  lineFrom(d, range.start), lineTo(d, range.start))}
             \cup hiddenLines(d, range.start + 1, range.end)

buildTableDecorations(view, ranges) ==
    LET focusedLines == focusedLinesOf(view)
    IN  UNION {tableRangeDecorations(view, ranges.tables[k], focusedLines) : k \in DOMAIN ranges.tables}

\* faulty variant: the delimiter lines are part of the widget's content
mathRangeDecorationsWithDelimiters(view, range, focusedLines) ==
    LET d == view.doc
    IN  IF rangeFocused(range, focusedLines)
        THEN {lineDecoration("cm-math-block-line", lineFrom(d, i)) : i \in range.start .. range.end}
        ELSE {replaceDecoration(
                  MathBlockWidget(join(SubSeq(d, range.start, range.end), Newline),
                                  lineFrom(d, range.start), lineTo(d, range.start)),
                  lineFrom(d, range.start), lineTo(d, range.start))}
             \cup hiddenLines(d, range.start + 1, range.end)

mathRangeDecorations(view, range, focusedLines) ==
    LET d == view.doc
    IN  IF rangeFocused(range, focusedLines)
        THEN {lineDecoration("cm-math-block-line", lineFrom(d, i)) : i \in range.start .. range.end}
        ELSE {replaceDecoration(
                  MathBlockWidget(join(SubSeq(d, range.start + 1, range.end - 1), Newline),
                                  lineFrom(d, range.start), lineTo(d, range.start)),
                  lineFrom(d, range.start), lineTo(d, range.start))}
             \cup hiddenLines(d, range.start + 1, range.end)

buildMathBlockDecorations(view, ranges) ==
    LET focusedLines == focusedLinesOf(view)
    IN  UNION {mathRangeDecorations(view, ranges.mathBlocks[k], focusedLines) : k \in DOMAIN ranges.mathBlocks}

mermaidRangeDecorations(view, range, focusedLines) ==
    LET d == view.doc
    IN  IF rangeFocused(range, focusedLines)
        THEN {lineDecoration("cm-mermaid-block-line", lineFrom(d, i)) : i \in range.start .. range.end}
        ELSE {replaceDecoration(
                  MermaidBlockWidget(join(SubSeq(d, range.start + 1, range.end - 1), Newline),
                                     lineFrom(d, range.start), lineTo(d, range.start)),
                  lineFrom(d, range.start), lineTo(d, range.start))}
             \cup hiddenLines(d, range.start + 1, range.end)

buildMermaidBlockDecorations(view, ranges) ==
    LET focusedLines == focusedLinesOf(view)
    IN  UNION {mermaidRangeDecorations(view, ranges.mermaidBlocks[k], focusedLines) :
               k \in DOMAIN ranges.mermaidBlocks}

-----------------------------------------------------------------------------
(* Focus mode *)

\* range.head; the selection ranges of the model run forward: anchor = from, head = to
head(range) == range.to

\* the first loop of findParagraphRange: walk up to the line after a blank line
RECURSIVE paragraphFrom(_, _)
paragraphFrom(d, from) ==
    IF from > 1 /\ trim(d[from - 1]) # <<>> THEN paragraphFrom(d, from - 1) ELSE from

\* the second loop: walk down to the line before a blank line
RECURSIVE paragraphTo(_, _)
paragraphTo(d, to) ==
    IF to < Len(d) /\ trim(d[to + 1]) # <<>> THEN paragraphTo(d, to + 1) ELSE to

findParagraphRange(d, pos) ==
    LET line == lineAt(d, pos)
    IN  [from |-> paragraphFrom(d, line), to |-> paragraphTo(d, line)]

\* focusModePlugin.buildDecorations(view)
focusModeBuildDecorations(view) ==
    IF ~view.hasFocus THEN {}
    ELSE LET d == view.doc
             para(k) == findParagraphRange(d, head(view.selection[k]))
             activeLines == UNION {para(k).from .. para(k).to : k \in DOMAIN view.selection}
         IN  {lineDecoration("cm-unfocused-line", lineFrom(d, i)) : i \in (1 .. Len(d)) \ activeLines}

\* focusModePlugin.update(update)
focusModePluginUpdate(decorations, update) ==
    IF update.selectionSet \/ update.docChanged \/ update.focusChanged
    THEN focusModeBuildDecorations(update.view)
    ELSE decorations

-----------------------------------------------------------------------------
(* The DOM of the block widgets *)

\* what a wrapper shows: nothing yet, KaTeX markup, an SVG diagram or an error
NoHtml == [kind |-> "empty", of |-> <<>>]

\* katex.renderToString(content, {throwOnError: false}) reports a parse error
\* inside its markup and still throws on input it cannot process; a "!" in
\* the content stands for such input
katexThrows(content) == \E i \in DOMAIN content : content[i] = "!"

\* faulty variant: no try/catch around the typesetter
renderBlockMathNoCatch(content) ==
    IF katexThrows(content) THEN [kind |-> "thrown", of |-> content]
    ELSE [kind |-> "katex", of |-> content]

\* renderBlockMath(content)
renderBlockMath(content) ==
    IF katexThrows(content) THEN [kind |-> "math-error", of |-> content]
    ELSE [kind |-> "katex", of |-> content]

\* e.message of a rejected mermaid.render
MermaidMessage == <<"e", "r", "r">>

\* what the async function of MermaidBlockWidget.toDOM writes when
\* mermaid.render(id, content) resolves (ok) or rejects
mermaidRender(content, ok) ==
    IF ok THEN [kind |-> "svg", of |-> content]
    ELSE [kind |-> "mermaid-error", of |-> MermaidMessage]

\* WidgetType.eq of the block and code-line widgets: the content (the rows of
\* a table) and, for a code line, the language; never the offsets
eq(a, b) == a.type = b.type /\ a.content = b.content /\ a.language = b.language

\* toDOM of MathBlockWidget, MermaidBlockWidget, TableWidget and
\* HighlightedCodeWidget: the wrapper element; from is the offset its
\* mousedown listener closed over, at is where it is drawn
toDOM(widget) ==
    [type |-> widget.type, content |-> widget.content, language |-> widget.language,
     from |-> widget.from, at |-> widget.from,
     html |-> IF widget.type = "MathBlockWidget" THEN renderBlockMath(widget.content)
              ELSE IF widget.type = "MermaidBlockWidget" THEN NoHtml
              ELSE [kind |-> widget.type, of |-> widget.content],
     attached |-> TRUE,
     pending |-> widget.type = "MermaidBlockWidget"]

\* wrappers: the wrapper elements; uncaught: an exception left toDOM;
\* settled: the wrapper and the outcome of the render that settled in the last step
\* the widgets of the decorations of a builder; the rows of a table are kept
\* as one text (no row holds a line break, so eq on the rows is eq on the text)
widgetsOf(decorations) ==
    {IF x.widget.type = "TableWidget"
     THEN [x.widget EXCEPT !.content = join(@, Newline)]
     ELSE x.widget : x \in {y \in decorations : y.widget.type # "none"}}

\* the widgets whose DOM is followed: those of the math and mermaid plugins
\* (the table and code-line widgets register their listener the same way)
blockWidgets(math, mermaid) == widgetsOf(math) \cup widgetsOf(mermaid)

NoDom == [wrappers |-> {}, uncaught |-> FALSE, settled |-> <<>>]

\* the view draws the widgets of the decorations: the host keeps the wrapper of
\* a widget that eq() reports equal to the new one (the k-th drawn of a
\* content stays with the k-th widget of that content) and calls toDOM for
\* every other widget; a wrapper that lost its widget leaves the document and
\* is remembered only while its render is in flight
syncDOM(dm, widgets) ==
    LET attached == {w \in dm.wrappers : w.attached}
        wrapperRank(w) == Cardinality({v \in attached : eq(v, w) /\ v.at < w.at})
        widgetRank(g) == Cardinality({h \in widgets : eq(h, g) /\ h.from < g.from})
        partner(w) == {g \in widgets : eq(g, w) /\ widgetRank(g) = wrapperRank(w)}
        kept == UNION {{[w EXCEPT !.at = g.from] : g \in partner(w)} : w \in attached}
        drawn == {toDOM(g) : g \in {h \in widgets : \A w \in attached : h \notin partner(w)}}
        left == {[w EXCEPT !.attached = FALSE] :
                    w \in {v \in dm.wrappers : v.pending /\ (v.attached => partner(v) = {})}}
    IN  [dm EXCEPT !.wrappers = kept \cup {w \in drawn : w.html.kind # "thrown"} \cup left,
                   !.uncaught = @ \/ \E w \in drawn : w.html.kind = "thrown",
                   !.settled = <<>>]

\* faulty variant: the result is written where the diagram is displayed now
settleRenderDisplayed(dm, w, ok) ==
    [dm EXCEPT !.wrappers = {IF v.type = w.type /\ v.attached /\ v.at = w.at
                             THEN [v EXCEPT !.pending = FALSE, !.html = mermaidRender(w.content, ok)]
                             ELSE v : v \in @ \ {x \in @ : x = w /\ ~x.attached}},
               !.settled = <<[wrapper |-> w, ok |-> ok]>>]

\* the render that wrapper w requested settles: the await in toDOM resumes
\* and assigns wrapper.innerHTML, in the try or in the catch
settleRender(dm, w, ok) ==
    [dm EXCEPT !.wrappers = (@ \ {w}) \cup
                   (IF w.attached
                    THEN {[w EXCEPT !.pending = FALSE, !.html = mermaidRender(w.content, ok)]}
                    ELSE {}),
               !.settled = <<[wrapper |-> w, ok |-> ok]>>]

-----------------------------------------------------------------------------
(* The state field and the view plugins *)

\* faulty variant: the field keeps its value whatever the transaction
blockRangesFieldUpdateKeepsValue(value, tr) == value

\* blockRangesField.update(value, tr)
blockRangesFieldUpdate(value, tr) ==
    IF tr.docChanged THEN computeBlockRanges(tr.newDoc) ELSE value

\* update(update) of each plugin; update.view is the view after the update and
\* update.ranges is update.state.field(blockRangesField)
\* faulty variant: a viewport change alone does not rebuild the plain-line decorations
hybridPreviewPluginUpdateNoViewport(decorations, update) ==
    IF update.docChanged \/ update.selectionSet \/ update.focusChanged
    THEN buildDecorations(update.view, update.ranges)
    ELSE decorations

hybridPreviewPluginUpdate(decorations, update) ==
    IF update.docChanged \/ update.selectionSet \/ update.viewportChanged \/ update.focusChanged
    THEN buildDecorations(update.view, update.ranges)
    ELSE decorations

codeBlockDecorationsUpdate(decorations, update) ==
    IF update.docChanged \/ update.selectionSet \/ update.focusChanged
    THEN buildCodeBlockDecorations(update.view, update.ranges)
    ELSE decorations

tableDecorationsUpdate(decorations, update) ==
    IF update.docChanged \/ update.selectionSet \/ update.focusChanged
    THEN buildTableDecorations(update.view, update.ranges)
    ELSE decorations

mathBlockDecorationsUpdate(decorations, update) ==
    IF update.docChanged \/ update.selectionSet \/ update.focusChanged
    THEN buildMathBlockDecorations(update.view, update.ranges)
    ELSE decorations

mermaidBlockDecorationsUpdate(decorations, update) ==
    IF update.docChanged \/ update.selectionSet \/ update.focusChanged
    THEN buildMermaidBlockDecorations(update.view, update.ranges)
    ELSE decorations

\* the view as the builders read it
currentView == [doc |-> doc, selection |-> selection, hasFocus |-> hasFocus,
                visibleRanges |-> visibleRanges]

-----------------------------------------------------------------------------
(* Mouse handlers of the widgets.  An event is what the handler reads of   *)
(* it: footnote is <<id>> when e.target.closest('[data-footnote]') finds   *)
(* an element (<<>> when not), link and checkbox tell whether closest('a') *)
(* with an href and closest('input[type="checkbox"]') find one, clickX is  *)
(* e.clientX - rect.left and width is rect.width.  A request is what the   *)
(* handler asks of the view: changes and selection hold at most one entry, *)
(* annotated tells whether the transaction carries allowReadOnlyEdit,      *)
(* focus is view.focus(), opened is window.open.                           *)

Min(a, b) == IF a < b THEN a ELSE b
Max(a, b) == IF a > b THEN a ELSE b

\* s.includes(p)
includes(s, p) == \E i \in 0 .. Len(s) - Len(p) : SubSeq(s, i + 1, i + Len(p)) = p

\* s.replace(pattern, r) for a pattern without the g flag that matches the
\* texts of ps, all of one length: the leftmost match is replaced
replaceFirst(s, ps, r) ==
    LET n == Len(CHOOSE q \in ps : TRUE)
        matches == {i \in 0 .. Len(s) - n : SubSeq(s, i + 1, i + n) \in ps}
    IN  IF matches = {} THEN s
        ELSE LET i == CHOOSE k \in matches : \A m \in matches : k <= m
             IN  SubSeq(s, 1, i) \o r \o SubSeq(s, i + n + 1, Len(s))

Checked == <<"[", "x", "]">>
CheckedUpper == <<"[", "X", "]">>
Unchecked == <<"[", " ", "]">>

\* the new line text of the checkbox branch
toggleCheckbox(content) ==
    LET isChecked == includes(content, Checked) \/ includes(content, CheckedUpper)
    IN  IF isChecked
        THEN replaceFirst(content, {Checked, CheckedUpper}, Unchecked)
        ELSE replaceFirst(content, {Unchecked}, Checked)

\* faulty variant: Math.round replaced by Math.floor
charPosFloor(clickX, totalWidth, textLength) ==
    IF totalWidth > 0 /\ textLength > 0
    THEN Max(0, Min((clickX * textLength) \div totalWidth, textLength))
    ELSE 0

\* the proportional estimate of MarkdownPreviewWidget and of
\* HighlightedCodeWidget: Math.round(clickX / totalWidth * textLength) is
\* floor(clickX * textLength / totalWidth + 1/2), then cut to 0 .. textLength
charPos(clickX, totalWidth, textLength) ==
    IF totalWidth > 0 /\ textLength > 0
    THEN Max(0, Min((2 * clickX * textLength + totalWidth) \div (2 * totalWidth), textLength))
    ELSE 0

\* [^id]: at the start of a line
footnoteDefinition(id) == <<"[", "^", id, "]", ":">>

\* the first line whose text matches /^\[\^id\]:/, 0 when there is none
RECURSIVE footnoteLine(_, _, _)
footnoteLine(d, id, i) ==
    IF i > Len(d) THEN 0
    ELSE IF startsWith(d[i], footnoteDefinition(id)) THEN i
    ELSE footnoteLine(d, id, i + 1)

NoRequest ==
    [changes |-> <<>>, selection |-> <<>>, annotated |-> FALSE, focus |-> FALSE, opened |-> FALSE]

\* faulty variant: the checkbox is tested before the footnote and the link
mousedownCheckboxFirst(view, widget, e) ==
    IF e.checkbox
    THEN [branch |-> "checkbox",
          request |-> [NoRequest EXCEPT !.changes =
                          <<[from |-> widget.from, to |-> widget.to,
                             insert |-> toggleCheckbox(widget.content)]>>]]
    ELSE IF e.footnote # <<>>
    THEN LET n == footnoteLine(view.doc, e.footnote[1], 1)
         IN  [branch |-> "footnote",
              request |-> IF n = 0 THEN NoRequest
                          ELSE [NoRequest EXCEPT !.selection = <<lineFrom(view.doc, n)>>,
                                                 !.focus = TRUE]]
    ELSE IF e.link
    THEN [branch |-> "link", request |-> [NoRequest EXCEPT !.opened = TRUE]]
    ELSE [branch |-> "text",
          request |-> [NoRequest EXCEPT
                          !.selection = <<widget.from + charPos(e.clickX, e.width, Len(widget.content))>>,
                          !.focus = TRUE]]

\* faulty variant: the checkbox branch also puts the cursor at the line start
mousedownCheckboxMovesCursor(view, widget, e) ==
    IF e.footnote # <<>>
    THEN LET n == footnoteLine(view.doc, e.footnote[1], 1)
         IN  [branch |-> "footnote",
              request |-> IF n = 0 THEN NoRequest
                          ELSE [NoRequest EXCEPT !.selection = <<lineFrom(view.doc, n)>>,
                                                 !.focus = TRUE]]
    ELSE IF e.link
    THEN [branch |-> "link", request |-> [NoRequest EXCEPT !.opened = TRUE]]
    ELSE IF e.checkbox
    THEN [branch |-> "checkbox",
          request |-> [NoRequest EXCEPT !.changes =
                          <<[from |-> widget.from, to |-> widget.to,
                             insert |-> toggleCheckbox(widget.content)]>>,
                          !.selection = <<widget.from>>]]
    ELSE [branch |-> "text",
          request |-> [NoRequest EXCEPT
                          !.selection = <<widget.from + charPos(e.clickX, e.width, Len(widget.content))>>,
                          !.focus = TRUE]]

\* the mousedown listener of MarkdownPreviewWidget: the branch that acts and
\* what it requests
mousedown(view, widget, e) ==
    IF e.footnote # <<>>
    THEN LET n == footnoteLine(view.doc, e.footnote[1], 1)
         IN  [branch |-> "footnote",
              request |-> IF n = 0 THEN NoRequest
                          ELSE [NoRequest EXCEPT !.selection = <<lineFrom(view.doc, n)>>,
                                                 !.focus = TRUE]]
    ELSE IF e.link
    THEN [branch |-> "link", request |-> [NoRequest EXCEPT !.opened = TRUE]]
    ELSE IF e.checkbox
    THEN [branch |-> "checkbox",
          request |-> [NoRequest EXCEPT !.changes =
                          <<[from |-> widget.from, to |-> widget.to,
                             insert |-> toggleCheckbox(widget.content)]>>]]
    ELSE [branch |-> "text",
          request |-> [NoRequest EXCEPT
                          !.selection = <<widget.from + charPos(e.clickX, e.width, Len(widget.content))>>,
                          !.focus = TRUE]]

NoEvent == [footnote |-> <<>>, link |-> FALSE, checkbox |-> FALSE, clickX |-> 0, width |-> 0]

\* before any widget was clicked
NoClick ==
    [branch |-> "none", widget |-> NoWidget, event |-> NoEvent, request |-> NoRequest,
     docBefore |-> <<>>, selectionBefore |-> <<>>, prior |-> <<>>]

-----------------------------------------------------------------------------
(* Read-only mode.  views[1] is the editor of this model, the later entries *)
(* are further editors made by createEditor; readOnlyEnabled is the flag of *)
(* the module, shared by all of them.                                       *)

NoTransaction ==
    [request |-> NoRequest, effects |-> <<>>, readOnly |-> FALSE,
     docBefore |-> <<>>, selectionBefore |-> <<>>]

NoCall == [name |-> "none", view |-> 0, returned |-> <<>>]

\* createEditor: readOnly.of(false), editable.of(true)
NewView == [readOnly |-> FALSE, editable |-> TRUE]

NoMode == [readOnlyEnabled |-> FALSE, views |-> <<NewView>>, call |-> NoCall, last |-> NoTransaction]

\* the transaction {changes: []} on the state start
emptyTransaction(start) ==
    [docChanged |-> FALSE, newDoc |-> start.doc, newSelection |-> start.selection,
     selectionSet |-> FALSE, annotated |-> FALSE]

\* faulty variant: every transaction passes
readOnlyTransactionFilterPassesAll(start, tr) == tr

readOnlyTransactionFilter(start, tr) ==
    IF ~start.readOnly \/ ~tr.docChanged THEN tr
    ELSE IF tr.annotated THEN tr
    ELSE emptyTransaction(start)

\* the reconfiguration both calls dispatch on view k
reconfigure(m, k) ==
    [m EXCEPT !.views[k] = [readOnly |-> m.readOnlyEnabled, editable |-> ~m.readOnlyEnabled]]

toggleReadOnly(m, k) ==
    LET flipped == [m EXCEPT !.readOnlyEnabled = ~m.readOnlyEnabled]
    IN  [reconfigure(flipped, k) EXCEPT
            !.call = [name |-> "toggleReadOnly", view |-> k, returned |-> <<flipped.readOnlyEnabled>>]]

setReadOnly(m, k, enabled) ==
    [reconfigure([m EXCEPT !.readOnlyEnabled = enabled], k) EXCEPT
        !.call = [name |-> "setReadOnly", view |-> k, returned |-> <<>>]]

isReadOnly(m) == m.readOnlyEnabled

-----------------------------------------------------------------------------
(* Inputs *)

\* line texts typed in the editing session
EditTexts ==
    { <<"a">>, Fence, MathDelimiter, <<"|", "a", "|">> }

\* line texts handed to the indexer: fences with and without language and
\* indentation, delimiters with and without surrounding blanks, table rows
IndexTexts ==
    { <<>>, <<"a">>,
      Fence, Fence \o <<" ", "j", " ">>, <<" ">> \o Fence, Fence \o MermaidLanguage,
      MathDelimiter, <<" ">> \o MathDelimiter \o <<" ">>, MathDelimiter \o <<"x">>,
      <<"|", "a", "|">>, <<" ", "|", " ">> }

\* line texts handed to the decoration builders
RenderTexts ==
    { <<>>, <<"a">>, Fence, Fence \o MermaidLanguage, MathDelimiter, <<"|", "a", "|">> }

\* line texts handed to the code and mermaid builders: fences bare, with a
\* language and with the mermaid tag, and empty and non-empty code lines
CodeTexts == { <<>>, <<"a">>, Fence, Fence \o <<"j">>, Fence \o MermaidLanguage }

\* line texts handed to the plain-line builder: empty, blank and indented
\* lines beside text and block lines
PlainTexts == { <<>>, <<" ">>, <<" ", "a">>, Fence, <<"|">> }

\* line texts handed to the focus resolver: only their lengths matter
FocusTexts == { <<>>, <<"a", "b">> }

\* line texts handed to the frontmatter scans: markers plain and indented,
\* title lines bare, quoted and without a value, and other text
FrontmatterTexts ==
    { FrontmatterMarker, <<" ">> \o FrontmatterMarker, DocumentEndMarker,
      TitleKey \o <<" ", "a">>, TitleKey \o <<"\"", "a", "\"">>, TitleKey, <<"a">> }

\* texts typed on the title line of the frontmatter: two titles and no title
TitleTexts == { TitleKey \o <<" ", "a">>, TitleKey \o <<" ", "b">>, <<"a">> }

\* texts typed under the frontmatter
BodyTexts == { <<"a">>, <<"b">> }

\* the docTitle of a configuration that names the title
ConfiguredTitle == << <<"a">> >>
\* <input type=checkbox>, raw HTML that the inline renderer passes through
CheckboxInput ==
    <<"<", "i", "n", "p", "u", "t", " ", "t", "y", "p", "e", "=",
      "c", "h", "e", "c", "k", "b", "o", "x", ">">>

\* line texts whose widgets are clicked: plain text, two task markers (one
\* of them upper case) around a checkbox element, a link whose text holds a
\* footnote reference and a checkbox, and a footnote definition whose text
\* refers to the footnote
\* lines of mermaid and math blocks; KaTeX cannot process "!"
DiagramTexts == { Fence \o MermaidLanguage, Fence, <<"a">>, MathDelimiter, <<"!">> }

\* lines around a math block: two plain lines of different length and the delimiter
WrapperTexts == { <<"a">>, <<"a", "a">>, MathDelimiter }
\* what an edit types into such a document
DiagramEdits == { <<"a">>, <<"!">> }

\* blank and non-blank lines
ParagraphTexts == { <<>>, <<" ">>, <<"a">> }

ClickTexts ==
    { <<"a", "b">>,
      Unchecked \o CheckboxInput \o CheckedUpper,
      <<"[", "[", "^", "1", "]">> \o CheckboxInput \o <<"]", "(", "u", ")">>,
      footnoteDefinition("1") \o <<"[", "^", "1", "]">> }

\* the footnote ids of the [data-footnote] elements the rendered line holds:
\* [^id] not followed by a colon
footnoteLinks(content) ==
    {id \in {"1"} :
        \E i \in 0 .. Len(content) - 4 :
            /\ SubSeq(content, i + 1, i + 4) = <<"[", "^", id, "]">>
            /\ (i + 5 <= Len(content) => content[i + 5] # ":")}

\* the mousedown events a rendered line can raise: the targets are elements
\* the line renders, clickX runs from left of the widget to right of it.  The
\* geometry is read only when no target is found, and is left 0 otherwise
Events(content) ==
    {e \in [footnote : {<<>>} \cup {<<id>> : id \in footnoteLinks(content)},
            link : {FALSE} \cup {b \in {TRUE} : includes(content, <<"]", "(", "u", ")">>)},
            checkbox : {FALSE} \cup {b \in {TRUE} : includes(content, CheckboxInput)},
            clickX : -1 .. MaxWidth + 1,
            width : {0, MaxWidth}] :
        e.footnote # <<>> \/ e.link \/ e.checkbox => e.clickX = 0 /\ e.width = 0}

\* the documents of 1..n lines over the given line texts
Docs(texts, n) == UNION {[1 .. k -> texts] : k \in 1 .. n}

\* the offsets at which a line starts or ends
LineBoundaries(d) == {lineFrom(d, n) : n \in 1 .. Len(d)} \cup {lineTo(d, n) : n \in 1 .. Len(d)}

\* ranges [from, to] over the given offsets
RangesOver(points) == {[from |-> a, to |-> b] : <<a, b>> \in {p \in points \X points : p[1] <= p[2]}}

\* the visible ranges: one range covering whole lines first..last
Viewports(d) ==
    {<<[from |-> lineFrom(d, a), to |-> lineTo(d, b)]>> :
     <<a, b>> \in {p \in (1 .. Len(d)) \X (1 .. Len(d)) : p[1] <= p[2]}}

\* selections of 1..n ranges, sorted and disjoint as EditorSelection keeps them
Selections(points, n) ==
    UNION {{s \in [1 .. k -> RangesOver(points)] :
              \A i \in 1 .. k - 1 : s[i].to < s[i + 1].from} : k \in 1 .. n}

-----------------------------------------------------------------------------
(* Construction *)

\* an EditorState configuration before anything is built
NewEditor(d, sel, focus, vis) ==
    /\ phase = "new"
    /\ doc = d
    /\ selection = sel
    /\ hasFocus = focus
    /\ visibleRanges = vis
    /\ blockRanges = NoBlockRanges
    /\ previewDecorations = {}
    /\ codeDecorations = {}
    /\ tableDecorations = {}
    /\ mathDecorations = {}
    /\ mermaidDecorations = {}
    /\ frontmatter = NoFrontmatter
    /\ panel = NoPanel
    /\ sheet = ClosedSheet
    /\ click = NoClick
    /\ mode = NoMode
    /\ focusModeDecorations = {}
    /\ dom = NoDom

\* EditorState.create: blockRangesField.create(state)
CreateState ==
    /\ phase = "new"
    /\ phase' = "state"
    /\ blockRanges' = computeBlockRanges(doc)
    /\ frontmatter' = computeFrontmatterRange(doc)
    /\ UNCHANGED <<doc, selection, hasFocus, visibleRanges, decorationVars, panel, sheet, click, mode>>

\* new EditorView: the constructor of each of the five plugins
CreateView ==
    /\ phase = "state"
    /\ phase' = "view"
    /\ previewDecorations' = buildDecorations(currentView, blockRanges)
    /\ codeDecorations' = buildCodeBlockDecorations(currentView, blockRanges)
    /\ tableDecorations' = buildTableDecorations(currentView, blockRanges)
    /\ mathDecorations' = buildMathBlockDecorations(currentView, blockRanges)
    /\ mermaidDecorations' = buildMermaidBlockDecorations(currentView, blockRanges)
    /\ focusModeDecorations' = focusModeBuildDecorations(currentView)
    /\ dom' = syncDOM(dom, blockWidgets(mathDecorations', mermaidDecorations'))
    /\ UNCHANGED <<doc, selection, hasFocus, visibleRanges, blockRanges, frontmatter, panel, sheet,
                   click, mode>>

\* the backlinks panel is added to the view: backlinksPanelFactory and its initial fetch
CreateBacklinksPanel ==
    /\ phase = "view"
    /\ ~panel.created
    /\ panel' = fetchBacklinks([panel EXCEPT !.created = TRUE], doc)
    /\ UNCHANGED <<phase, doc, selection, hasFocus, visibleRanges, blockRanges, decorationVars,
                   frontmatter, sheet, click, mode>>

\* the sheet is toggled open: update() finds it newly open and runs open()
OpenSheet ==
    /\ phase = "view"
    /\ ~sheet.isOpen
    /\ sheet.opened < MaxSheetOpens
    /\ sheet' = [sheet EXCEPT !.isOpen = TRUE, !.content = buildContent(doc, frontmatter),
                              !.scrollLocked = TRUE, !.escHandler = TRUE,
                              !.opened = @ + 1, !.pairs = @ \cup {sheet.opened + 1},
                              !.current = {sheet.opened + 1}]
    /\ UNCHANGED <<phase, doc, selection, hasFocus, visibleRanges, blockRanges, decorationVars,
                   frontmatter, panel, click, mode>>

-----------------------------------------------------------------------------
(* Updates of a running editor *)

\* one update cycle: the transaction tr reaches the state field, then every plugin
ApplyUpdate(tr, focus, vis, flags) ==
    LET ranges == blockRangesFieldUpdate(blockRanges, tr)
        update == [docChanged |-> tr.docChanged,
                   selectionSet |-> flags.selectionSet,
                   viewportChanged |-> flags.viewportChanged,
                   focusChanged |-> flags.focusChanged,
                   view |-> [doc |-> tr.newDoc, selection |-> tr.newSelection,
                             hasFocus |-> focus, visibleRanges |-> vis],
                   ranges |-> ranges]
    IN  /\ phase = "view"
        /\ phase' = phase
        /\ doc' = tr.newDoc
        /\ selection' = tr.newSelection
        /\ hasFocus' = focus
        /\ visibleRanges' = vis
        /\ blockRanges' = ranges
        /\ previewDecorations' = hybridPreviewPluginUpdate(previewDecorations, update)
        /\ codeDecorations' = codeBlockDecorationsUpdate(codeDecorations, update)
        /\ tableDecorations' = tableDecorationsUpdate(tableDecorations, update)
        /\ mathDecorations' = mathBlockDecorationsUpdate(mathDecorations, update)
        /\ mermaidDecorations' = mermaidBlockDecorationsUpdate(mermaidDecorations, update)
        /\ focusModeDecorations' = focusModePluginUpdate(focusModeDecorations, update)
        /\ dom' = syncDOM(dom, blockWidgets(mathDecorations', mermaidDecorations'))
        /\ frontmatter' = IF tr.docChanged THEN computeFrontmatterRange(tr.newDoc) ELSE frontmatter
        /\ panel' = IF panel.created /\ tr.docChanged THEN fetchBacklinks(panel, tr.newDoc) ELSE panel
        /\ sheet' = IF sheet.isOpen /\ tr.docChanged
                    THEN [sheet EXCEPT !.content = buildContent(tr.newDoc, frontmatter')]
                    ELSE sheet

NoFlags == [selectionSet |-> FALSE, viewportChanged |-> FALSE, focusChanged |-> FALSE]

\* the text of the document: its lines joined by line breaks
docText(d) == join(d, Newline)

\* the lines of a text: split at every line break
RECURSIVE splitLines(_, _)
splitLines(text, line) ==
    IF text = <<>> THEN <<line>>
    ELSE IF Head(text) = "\n" THEN <<line>> \o splitLines(Tail(text), <<>>)
    ELSE splitLines(Tail(text), Append(line, Head(text)))

\* tr.newDoc for changes {from, to, insert}
applyChange(d, change) ==
    LET text == docText(d)
    IN  splitLines(SubSeq(text, 1, change.from) \o change.insert
                       \o SubSeq(text, change.to + 1, Len(text)), <<>>)

\* a position carried through changes {from, to, insert}
mapPos(pos, change) ==
    IF pos <= change.from THEN pos
    ELSE IF pos >= change.to THEN pos - (change.to - change.from) + Len(change.insert)
    ELSE change.from

mapRanges(rs, change) ==
    [k \in DOMAIN rs |-> [from |-> mapPos(rs[k].from, change), to |-> mapPos(rs[k].to, change)]]

\* the visible ranges after a change: the same window of lines, cut to the new document
viewportAfter(vis, d, newDoc) ==
    [k \in DOMAIN vis |->
        [from |-> lineFrom(newDoc, Min(lineAt(d, vis[k].from), Len(newDoc))),
         to |-> lineTo(newDoc, Min(lineAt(d, vis[k].to), Len(newDoc)))]]

\* the transaction a request describes on the state start
transaction(start, req) ==
    [docChanged |-> req.changes # <<>>,
     newDoc |-> IF req.changes = <<>> THEN start.doc ELSE applyChange(start.doc, req.changes[1]),
     newSelection |-> IF req.selection # <<>>
                      THEN <<[from |-> req.selection[1], to |-> req.selection[1]]>>
                      ELSE IF req.changes # <<>> THEN mapRanges(start.selection, req.changes[1])
                      ELSE start.selection,
     selectionSet |-> req.selection # <<>>,
     annotated |-> req.annotated]

\* view.dispatch(request): the transaction passes the read-only filter and
\* reaches the state field and the plugins; view.focus() when requested
Perform(req) ==
    IF req.changes = <<>> /\ req.selection = <<>> THEN UNCHANGED editorVars
    ELSE LET start == [readOnly |-> mode.views[1].readOnly, doc |-> doc, selection |-> selection]
             tr == readOnlyTransactionFilter(start, transaction(start, req))
             vis == viewportAfter(visibleRanges, doc, tr.newDoc)
         IN  ApplyUpdate(tr, hasFocus \/ req.focus, vis,
                         [selectionSet |-> tr.selectionSet,
                          viewportChanged |-> vis # visibleRanges,
                          focusChanged |-> req.focus /\ ~hasFocus])

\* view.dispatch({changes}): a transaction with changes and no explicit selection
DispatchChanges(change) == Perform([NoRequest EXCEPT !.changes = <<change>>])

\* changes replacing the text of line n
ReplaceLine ==
    /\ \E n \in 1 .. Len(doc), t \in EditTexts :
        DispatchChanges([from |-> lineFrom(doc, n), to |-> lineTo(doc, n), insert |-> t])
    /\ UNCHANGED <<click, mode>>

\* changes inserting a line break and a text at the end of line n
InsertLine ==
    /\ Len(doc) < MaxLines
    /\ \E n \in 1 .. Len(doc), t \in EditTexts :
        DispatchChanges([from |-> lineTo(doc, n), to |-> lineTo(doc, n), insert |-> Newline \o t])
    /\ UNCHANGED <<click, mode>>

\* changes deleting line n with the line break before it (after it, for line 1)
DeleteLine ==
    /\ Len(doc) > 1
    /\ \E n \in 1 .. Len(doc) :
        DispatchChanges(IF n = 1
                        THEN [from |-> 0, to |-> lineFrom(doc, 2), insert |-> <<>>]
                        ELSE [from |-> lineTo(doc, n - 1), to |-> lineTo(doc, n), insert |-> <<>>])
    /\ UNCHANGED <<click, mode>>

\* a transaction that only sets the selection
SetSelection ==
    /\ \E sel \in Selections(LineBoundaries(doc), 1) :
        ApplyUpdate([docChanged |-> FALSE, newDoc |-> doc, newSelection |-> sel],
                    hasFocus, visibleRanges, [NoFlags EXCEPT !.selectionSet = TRUE])
    /\ UNCHANGED <<click, mode>>

\* the editor gains or loses input focus
FocusChange ==
    /\ ApplyUpdate([docChanged |-> FALSE, newDoc |-> doc, newSelection |-> selection],
                   ~hasFocus, visibleRanges, [NoFlags EXCEPT !.focusChanged = TRUE])
    /\ UNCHANGED <<click, mode>>

\* scrolling moves the visible ranges
ViewportChange ==
    /\ \E vis \in Viewports(doc) :
        /\ vis # visibleRanges
        /\ ApplyUpdate([docChanged |-> FALSE, newDoc |-> doc, newSelection |-> selection],
                       hasFocus, vis, [NoFlags EXCEPT !.viewportChanged = TRUE])
    /\ UNCHANGED <<click, mode>>

\* changes replacing the title line of the frontmatter; the panel stops
\* issuing requests at MaxRequests
EditTitle ==
    /\ panel.created
    /\ panel.currentRequest < MaxRequests
    /\ Len(doc) >= 2
    /\ \E t \in TitleTexts :
        /\ t # doc[2]
        /\ DispatchChanges([from |-> lineFrom(doc, 2), to |-> lineTo(doc, 2), insert |-> t])
    /\ UNCHANGED <<click, mode>>

\* the panel is added under a configuration that names the document's title
CreateBacklinksPanelWithDocTitle ==
    /\ phase = "view"
    /\ ~panel.created
    /\ panel' = fetchBacklinks([panel EXCEPT !.created = TRUE, !.docTitle = ConfiguredTitle], doc)
    /\ UNCHANGED <<phase, doc, selection, hasFocus, visibleRanges, blockRanges, decorationVars,
                   frontmatter, sheet, click, mode>>

\* changes to the body under the frontmatter: a first line is added after
\* the closing marker, or that line is replaced
EditBody ==
    /\ panel.created
    /\ Len(doc) >= 3
    /\ \E t \in BodyTexts :
        IF Len(doc) = 3
        THEN DispatchChanges([from |-> lineTo(doc, 3), to |-> lineTo(doc, 3), insert |-> Newline \o t])
        ELSE /\ t # doc[4]
             /\ DispatchChanges([from |-> lineFrom(doc, 4), to |-> lineTo(doc, 4), insert |-> t])
    /\ UNCHANGED <<click, mode>>
\* the sheet is toggled closed: update() finds it newly closed and runs close()
CloseSheet ==
    /\ phase = "view"
    /\ sheet.isOpen
    /\ sheet' = close(sheet)
    /\ UNCHANGED <<phase, doc, selection, hasFocus, visibleRanges, blockRanges, decorationVars,
                   frontmatter, panel, click, mode>>

\* a timer set by close() fires, with or without the view: its pair leaves the DOM
RemovalTimer ==
    /\ \E id \in sheet.timers :
        sheet' = [sheet EXCEPT !.pairs = @ \ {id}, !.timers = @ \ {id}]
    /\ UNCHANGED <<phase, doc, selection, hasFocus, visibleRanges, blockRanges, decorationVars,
                   frontmatter, panel, click, mode>>

\* the view is destroyed, and the sheet plugin with it
DestroyView ==
    /\ phase = "view"
    /\ phase' = "destroyed"
    /\ sheet' = destroy(sheet)
    /\ UNCHANGED <<doc, selection, hasFocus, visibleRanges, blockRanges, decorationVars,
                   frontmatter, panel, click, mode>>
\* the resolver settles one of the requests in flight, in any order
BacklinksResponse ==
    /\ phase = "view"
    /\ \E r \in panel.pending, ok \in BOOLEAN :
        panel' = settleRequest(panel, r, ok)
    /\ UNCHANGED <<phase, doc, selection, hasFocus, visibleRanges, blockRanges, decorationVars,
                   frontmatter, sheet, click, mode>>

\* a mousedown on the widget of a rendered plain line.  prior holds the text
\* the line had before the preceding click when this click and the preceding
\* one are the two checkbox clicks of a round trip on one line
ClickPreview ==
    /\ phase = "view"
    /\ \E dec \in previewDecorations :
        \E e \in Events(dec.widget.content) :
            LET handled == mousedown(currentView, dec.widget, e)
            IN  /\ click' = [branch |-> handled.branch, widget |-> dec.widget, event |-> e,
                             request |-> handled.request,
                             docBefore |-> doc, selectionBefore |-> selection,
                             prior |-> IF /\ handled.branch = "checkbox"
                                          /\ click.branch = "checkbox"
                                          /\ click.widget.from = dec.widget.from
                                          /\ click.prior = <<>>
                                       THEN <<click.widget.content>>
                                       ELSE <<>>]
                /\ Perform(handled.request)
    /\ UNCHANGED mode

\* a dispatch to this editor, recorded in mode.last with the state it found
Logged(req) ==
    /\ phase = "view"
    /\ Perform(req)
    /\ mode' = [mode EXCEPT !.last = [request |-> req, effects |-> <<>>,
                                      readOnly |-> mode.views[1].readOnly,
                                      docBefore |-> doc, selectionBefore |-> selection]]
    /\ UNCHANGED click

\* a transaction replacing the text of line n without the annotation, as
\* typing or a checkbox click dispatches it
TypeText ==
    \E n \in 1 .. Len(doc), t \in {<<"a">>, <<"b">>} :
        /\ t # doc[n]
        /\ Logged([NoRequest EXCEPT
                      !.changes = <<[from |-> lineFrom(doc, n), to |-> lineTo(doc, n), insert |-> t]>>])

\* a transaction that only moves the cursor
MoveCursor ==
    \E pos \in LineBoundaries(doc) :
        /\ selection # <<[from |-> pos, to |-> pos]>>
        /\ Logged([NoRequest EXCEPT !.selection = <<pos>>])

\* the Add Frontmatter button of the sheet's empty state
AddFrontmatter ==
    /\ sheet.isOpen
    /\ sheet.content.kind = "empty"
    /\ Len(doc) + 2 <= MaxReadOnlyLines
    /\ Logged([NoRequest EXCEPT
                  !.changes = <<[from |-> 0, to |-> 0,
                                 insert |-> FrontmatterMarker \o Newline
                                            \o FrontmatterMarker \o Newline]>>,
                  !.annotated = TRUE])

\* createEditor: one more editor of the module
CreateEditor ==
    /\ phase = "view"
    /\ Len(mode.views) < MaxViews
    /\ mode' = [mode EXCEPT !.views = Append(@, NewView)]
    /\ UNCHANGED <<editorVars, click>>

\* a dispatch of effects alone changes neither the document nor the
\* selection and passes the filter; on this editor it is recorded
effectsOnly(m, k) ==
    IF k # 1 THEN m
    ELSE [m EXCEPT !.last = [request |-> NoRequest, effects |-> <<m.readOnlyEnabled>>,
                             readOnly |-> mode.views[1].readOnly,
                             docBefore |-> doc, selectionBefore |-> selection]]

ToggleReadOnly ==
    /\ phase = "view"
    /\ \E k \in DOMAIN mode.views : mode' = effectsOnly(toggleReadOnly(mode, k), k)
    /\ UNCHANGED <<editorVars, click>>

SetReadOnly ==
    /\ phase = "view"
    /\ \E k \in DOMAIN mode.views, enabled \in BOOLEAN :
        mode' = effectsOnly(setReadOnly(mode, k, enabled), k)
    /\ UNCHANGED <<editorVars, click>>

\* a mousedown on the widget of a highlighted code line: the cursor request
\* with the proportional estimate from the content and lineFrom the widget
\* was built with (the view carries the request out as in Perform)
ClickCodeWidget ==
    /\ click.branch = "none"
    /\ click.widget.type = "HighlightedCodeWidget"
    /\ click' = [click EXCEPT
                    !.branch = "text",
                    !.request = [NoRequest EXCEPT
                                    !.selection = <<click.widget.from
                                                    + charPos(click.event.clickX, click.event.width,
                                                              Len(click.widget.content))>>,
                                    !.focus = TRUE]]
    /\ UNCHANGED <<editorVars, mode>>

\* changes replacing the text of a content line of a document of diagrams
\* and formulas; no edit leaves more than MaxRenders renders in flight
EditDiagram ==
    /\ \E n \in 1 .. Len(doc), t \in DiagramEdits :
        /\ doc[n] \in DiagramEdits
        /\ t # doc[n]
        /\ DispatchChanges([from |-> lineFrom(doc, n), to |-> lineTo(doc, n), insert |-> t])
    /\ Cardinality({w \in dom'.wrappers : w.pending}) <= MaxRenders
    /\ UNCHANGED <<click, mode>>

\* a mermaid.render issued by some wrapper resolves or rejects; renders
\* settle in any order
MermaidRenderSettles ==
    /\ phase = "view"
    /\ \E w \in {v \in dom.wrappers : v.pending}, ok \in BOOLEAN : dom' = settleRender(dom, w, ok)
    /\ UNCHANGED <<phase, doc, selection, hasFocus, visibleRanges, blockRanges,
                   previewDecorations, codeDecorations, tableDecorations, mathDecorations,
                   mermaidDecorations, focusModeDecorations, frontmatter, panel, sheet,
                   click, mode>>

\* changes replacing the text of line n of a document of formulas and plain lines
EditWrapperLine ==
    /\ \E n \in 1 .. Len(doc), t \in WrapperTexts :
        /\ t # doc[n]
        /\ DispatchChanges([from |-> lineFrom(doc, n), to |-> lineTo(doc, n), insert |-> t])
    /\ UNCHANGED <<click, mode>>
\* the mousedown listener toDOM registered on wrapper w: it dispatches the
\* offset it closed over when the wrapper was created
wrapperMousedown(w) == [NoRequest EXCEPT !.selection = <<w.from>>, !.focus = TRUE]

\* mousedown on a displayed math or mermaid wrapper; click.widget is the
\* widget the wrapper stands for now. A selection beyond the end of the
\* document makes view.dispatch throw before anything changes
ClickWrapper ==
    /\ phase = "view"
    /\ \E w \in {v \in dom.wrappers : v.attached} :
        \E g \in {h \in blockWidgets(mathDecorations, mermaidDecorations) :
                      eq(h, w) /\ h.from = w.at} :
            LET req == wrapperMousedown(w)
            IN  /\ click' = [NoClick EXCEPT !.branch = "wrapper", !.widget = g, !.request = req,
                                            !.docBefore = doc, !.selectionBefore = selection]
                /\ IF req.selection[1] <= docLength(doc) THEN Perform(req) ELSE UNCHANGED editorVars
    /\ UNCHANGED mode
-----------------------------------------------------------------------------
(* Specifications *)

CursorAtStart == <<[from |-> 0, to |-> 0]>>

\* the editing session: an editor created on an empty document, then updated
Init == NewEditor(<< <<>> >>, CursorAtStart, FALSE, <<[from |-> 0, to |-> 0]>>)

Next ==
    \/ CreateState
    \/ CreateView
    \/ ReplaceLine
    \/ InsertLine
    \/ DeleteLine
    \/ SetSelection
    \/ FocusChange
    \/ ViewportChange

Spec == Init /\ [][Next]_vars

\* the indexer alone: a state is created on every document
InitIndex ==
    \E d \in Docs(IndexTexts, MaxIndexLines) :
        NewEditor(d, CursorAtStart, FALSE, <<[from |-> 0, to |-> docLength(d)]>>)

NextIndex == CreateState

SpecIndex == InitIndex /\ [][NextIndex]_vars

\* the builders alone: a view is created on every document, selection, focus and viewport
InitRender ==
    \E d \in Docs(RenderTexts, MaxRenderLines) :
        \E sel \in Selections(LineBoundaries(d), 1), focus \in BOOLEAN, vis \in Viewports(d) :
            NewEditor(d, sel, focus, vis)

NextRender == CreateState \/ CreateView

SpecRender == InitRender /\ [][NextRender]_vars

\* the focus resolver alone: a focused view is created on every selection of several ranges
InitFocus ==
    \E d \in Docs(FocusTexts, MaxFocusLines) :
        \E sel \in Selections(0 .. docLength(d), MaxRanges) :
            NewEditor(d, sel, TRUE, <<[from |-> 0, to |-> docLength(d)]>>)

NextFocus == CreateState \/ CreateView

SpecFocus == InitFocus /\ [][NextFocus]_vars

\* the code and mermaid builders on documents of fences and code lines, the
\* whole document visible
InitCode ==
    \E d \in Docs(CodeTexts, MaxCodeLines) :
        \E sel \in Selections(LineBoundaries(d), 1), focus \in BOOLEAN :
            NewEditor(d, sel, focus, <<[from |-> 0, to |-> docLength(d)]>>)

SpecCode == InitCode /\ [][NextRender]_vars

\* the plain-line builder on documents with blank lines
InitPlain ==
    \E d \in Docs(PlainTexts, MaxPlainLines) :
        \E sel \in Selections(LineBoundaries(d), 1), focus \in BOOLEAN, vis \in Viewports(d) :
            NewEditor(d, sel, focus, vis)

SpecPlain == InitPlain /\ [][NextRender]_vars

\* the frontmatter consumers alone: on every document a view is created, the
\* backlinks panel is added and the sheet is opened
InitFrontmatter ==
    \E d \in Docs(FrontmatterTexts, MaxFrontmatterLines) :
        NewEditor(d, CursorAtStart, FALSE, <<[from |-> 0, to |-> docLength(d)]>>)

NextFrontmatter == CreateState \/ CreateView \/ CreateBacklinksPanel \/ OpenSheet

SpecFrontmatter == InitFrontmatter /\ [][NextFrontmatter]_vars

\* the backlinks panel in an editing session: the title line of a document
\* with frontmatter is edited while resolver responses arrive in any order
InitPanel ==
    \E t \in TitleTexts :
        NewEditor(<<FrontmatterMarker, t, FrontmatterMarker>>,
                  CursorAtStart, FALSE, <<[from |-> 0, to |-> 0]>>)

NextPanel ==
    \/ CreateState
    \/ CreateView
    \/ CreateBacklinksPanel
    \/ CreateBacklinksPanelWithDocTitle
    \/ EditTitle
    \/ EditBody
    \/ BacklinksResponse

SpecPanel == InitPanel /\ [][NextPanel]_vars

\* the frontmatter sheet over its life: opened and closed while lines of the
\* document are deleted, its removal timers firing at any later time, until
\* the view is destroyed
InitSheet ==
    \E t \in TitleTexts :
        NewEditor(<<FrontmatterMarker, t, FrontmatterMarker>>,
                  CursorAtStart, FALSE, <<[from |-> 0, to |-> 0]>>)

NextSheet ==
    \/ CreateState
    \/ CreateView
    \/ OpenSheet
    \/ CloseSheet
    \/ DeleteLine
    \/ RemovalTimer
    \/ DestroyView

SpecSheet == InitSheet /\ [][NextSheet]_vars

\* a timer that is set fires
SpecSheetFair == SpecSheet /\ WF_vars(RemovalTimer)
\* the widgets of rendered plain lines are clicked: an unfocused view on
\* every document, then any sequence of clicks
InitClick ==
    \E d \in Docs(ClickTexts, MaxClickLines) :
        NewEditor(d, CursorAtStart, FALSE, <<[from |-> 0, to |-> docLength(d)]>>)

NextClick == CreateState \/ CreateView \/ ClickPreview

SpecClick == InitClick /\ [][NextClick]_vars

\* the proportional mapper alone: a code-line widget of every text length
\* and offset meets a mousedown of every geometry
InitMapper ==
    /\ \E content \in Docs({"a"}, MaxTextLength) \cup {<<>>}, from \in 0 .. 1 :
       \E clickX \in -1 .. MaxWidth + 1, width \in 0 .. MaxWidth :
           click = [NoClick EXCEPT
                       !.widget = HighlightedCodeWidget(content, <<>>, from, from + Len(content)),
                       !.event = [NoEvent EXCEPT !.clickX = clickX, !.width = width]]
    /\ phase = "new"
    /\ doc = << <<>> >>
    /\ selection = CursorAtStart
    /\ hasFocus = FALSE
    /\ visibleRanges = <<[from |-> 0, to |-> 0]>>
    /\ blockRanges = NoBlockRanges
    /\ previewDecorations = {}
    /\ codeDecorations = {}
    /\ tableDecorations = {}
    /\ mathDecorations = {}
    /\ mermaidDecorations = {}
    /\ frontmatter = NoFrontmatter
    /\ panel = NoPanel
    /\ sheet = ClosedSheet
    /\ mode = NoMode
    /\ focusModeDecorations = {}
    /\ dom = NoDom

NextMapper == ClickCodeWidget

SpecMapper == InitMapper /\ [][NextMapper]_vars

\* read-only mode: an editor with the sheet, edited and switched between
\* read-only and editable, beside further editors of the module
InitReadOnly ==
    \E t \in {<<>>, <<"a">>} :
        NewEditor(<<t>>, CursorAtStart, FALSE, <<[from |-> 0, to |-> Len(t)]>>)

NextReadOnly ==
    \/ CreateState
    \/ CreateView
    \/ OpenSheet
    \/ TypeText
    \/ MoveCursor
    \/ AddFrontmatter
    \/ CreateEditor
    \/ ToggleReadOnly
    \/ SetReadOnly

SpecReadOnly == InitReadOnly /\ [][NextReadOnly]_vars

\* diagrams and formulas: edits, focus changes and render completions interleave
InitDiagram ==
    \E d \in Docs(DiagramTexts, MaxDiagramLines) :
        NewEditor(d, CursorAtStart, FALSE, <<[from |-> 0, to |-> docLength(d)]>>)

NextDiagram == CreateState \/ CreateView \/ EditDiagram \/ FocusChange \/ MermaidRenderSettles

SpecDiagram == InitDiagram /\ [][NextDiagram]_vars

\* focus mode: paragraphs, selections of several ranges, focus changes and edits
InitFocusMode ==
    \E d \in Docs(ParagraphTexts, MaxParagraphLines) :
        \E sel \in Selections(LineBoundaries(d), MaxRanges), focus \in BOOLEAN :
            NewEditor(d, sel, focus, <<[from |-> 0, to |-> docLength(d)]>>)

NextFocusMode == CreateState \/ CreateView \/ SetSelection \/ FocusChange \/ DeleteLine

SpecFocusMode == InitFocusMode /\ [][NextFocusMode]_vars

\* clicks on math widgets after edits that move the blocks
InitWrapper ==
    \E d \in Docs(WrapperTexts, MaxWrapperLines) :

        NewEditor(d, CursorAtStart, FALSE, <<[from |-> 0, to |-> docLength(d)]>>)

NextWrapper == CreateState \/ CreateView \/ EditWrapperLine \/ ClickWrapper


SpecWrapper == InitWrapper /\ [][NextWrapper]_vars
-----------------------------------------------------------------------------
(* Properties of the block index *)

Lines == 1 .. Len(doc)

\* the k-th smallest element of a set of line numbers
Nth(S, k) == CHOOSE i \in S : Cardinality({j \in S : j <= i}) = k

\* the ranges of a range list, as a set
RangeSet(ranges) == {ranges[k] : k \in DOMAIN ranges}

\* C1: whenever the state exists, the cached block index equals
\* computeBlockRanges of the current document, and a step that leaves the
\* document as it is leaves the cached index as it is.
C1_CachedIndexMatchesDocument ==
    /\ [](phase # "new" => blockRanges = computeBlockRanges(doc))
    /\ [][(phase = "view" /\ doc' = doc) => blockRanges' = blockRanges]_vars

\* C1 witness: a running editor that has been edited into a document with a
\* code block, has moved the selection off the start and has gained focus.
C1_Witness ==
    /\ phase = "view"
    /\ blockRanges.codeBlocks # <<>>
    /\ selection[1].from > 0
    /\ hasFocus

\* C2: no line belongs to two of the code, math and table line sets, and the
\* mermaid line set lies inside the code line set.
C2_BlockKindsDisjoint ==
    phase = "state" =>
        /\ blockRanges.codeBlockLines \cap blockRanges.mathBlockLines = {}
        /\ blockRanges.codeBlockLines \cap blockRanges.tableLines = {}
        /\ blockRanges.mathBlockLines \cap blockRanges.tableLines = {}
        /\ blockRanges.mermaidBlockLines \subseteq blockRanges.codeBlockLines

\* lines whose text starts with the fence marker
FenceLines == {i \in Lines : startsWith(doc[i], Fence)}

\* lines whose trimmed text starts with the fence marker
TrimmedFenceLines == {i \in Lines : startsWith(trim(doc[i]), Fence)}

\* the code-block list pairs the lines of F alternately as opening and closing
\* fence, with the language read off the opening line by lang; only the last
\* range of an odd F may end on a line outside F
FencesToggle(F, lang(_)) ==
    LET n == Cardinality(F)
        blocks == blockRanges.codeBlocks
    IN  /\ Len(blocks) >= n \div 2
        /\ Len(blocks) <= (n + 1) \div 2
        /\ \A k \in 1 .. n \div 2 :
              blocks[k] = [start |-> Nth(F, 2 * k - 1), end |-> Nth(F, 2 * k),
                           language |-> lang(Nth(F, 2 * k - 1))]
        /\ \A k \in DOMAIN blocks :
              /\ blocks[k].start \in F
              /\ blocks[k].end \in F \/ (k = Len(blocks) /\ n % 2 = 1)

\* C7 as claimed: every line whose trimmed text starts with the marker toggles
\* the fence state, and the language is the trimmed text after the marker.
C7_TrimmedFenceLinesToggle ==
    phase = "state" =>
        FencesToggle(TrimmedFenceLines, LAMBDA i : trim(slice(trim(doc[i]), 3)))

\* C7 amended: every line whose text itself starts with the marker toggles the
\* fence state (1st opens, 2nd closes and emits [open, close] with the opening
\* line's language, the trimmed text after the marker, and so on); a line that
\* does not start with the marker, an indented fence included, never opens or
\* closes a block.
C7_FenceLinesToggle ==
    phase = "state" =>
        FencesToggle(FenceLines, LAMBDA i : trim(slice(doc[i], 3)))

\* C7 witness: a closed block with a language, beside an indented fence line
\* that toggled nothing.
C7_Witness ==
    /\ phase = "state"
    /\ TrimmedFenceLines # FenceLines
    /\ \E k \in DOMAIN blockRanges.codeBlocks :
          /\ blockRanges.codeBlocks[k].language # <<>>
          /\ blockRanges.codeBlocks[k].end \in FenceLines \ {blockRanges.codeBlocks[k].start}

\* C8: with an odd number of fence lines the scan ends with a fence open, and
\* exactly one more range is emitted, from the last fence line to the last
\* line of the document with that fence line's language; with an even number
\* no such range is emitted.
C8_UnterminatedFenceRunsToEnd ==
    phase = "state" =>
        LET n == Cardinality(FenceLines)
            blocks == blockRanges.codeBlocks
        IN  IF n % 2 = 1
            THEN /\ Len(blocks) = (n + 1) \div 2
                 /\ blocks[Len(blocks)] =
                        [start |-> Nth(FenceLines, n), end |-> Len(doc),
                         language |-> trim(slice(doc[Nth(FenceLines, n)], 3))]
            ELSE Len(blocks) = n \div 2

\* C8 witness: three fence lines, the third left open before a last line that
\* is no fence.
C8_Witness ==
    /\ phase = "state"
    /\ Cardinality(FenceLines) = 3
    /\ Len(doc) \notin FenceLines
    /\ blockRanges.codeBlocks[2].end = Len(doc)

\* lines outside code blocks whose trimmed text is the math delimiter
MathDelimiterLines ==
    {i \in Lines : i \notin blockRanges.codeBlockLines /\ trim(doc[i]) = MathDelimiter}

NoCodeLineIn(a, b) == \A j \in a .. b : j \notin blockRanges.codeBlockLines

\* delimiter lines that open a region: an even number of delimiter lines
\* precede them since the last code-block line
MathOpeners ==
    {i \in MathDelimiterLines :
        Cardinality({j \in MathDelimiterLines : j < i /\ NoCodeLineIn(j, i)}) % 2 = 0}

C10_NoMathRangeAcrossCode ==
    phase = "state" =>
        \A k \in DOMAIN blockRanges.mathBlocks :
            \A j \in blockRanges.mathBlocks[k].start .. blockRanges.mathBlocks[k].end :
                j \notin blockRanges.codeBlockLines

\* C10 witness: a delimiter line, then a code block, then a delimiter line,
\* and the region opened by the first was abandoned.
C10_Witness ==
    /\ phase = "state"
    /\ \E a \in MathDelimiterLines, c \in blockRanges.codeBlockLines, b \in MathDelimiterLines :
          /\ a < c
          /\ c < b
          /\ a \notin blockRanges.mathBlockLines

\* lines outside code blocks whose trimmed text starts and ends with a pipe
PipeLines ==
    {i \in Lines :
        /\ i \notin blockRanges.codeBlockLines
        /\ startsWith(trim(doc[i]), Pipe)
        /\ endsWith(trim(doc[i]), Pipe)}

\* the maximal runs of consecutive line numbers of S, as ranges
MaximalRuns(S) ==
    {[start |-> p[1], end |-> p[2]] :
     p \in {q \in S \X S :
              /\ q[1] <= q[2]
              /\ \A j \in q[1] .. q[2] : j \in S
              /\ q[1] - 1 \notin S
              /\ q[2] + 1 \notin S}}

\* C11: the table ranges are exactly the maximal runs of consecutive lines
\* that lie outside code blocks and whose trimmed text starts and ends with a
\* pipe, each run listed once; a run reaching the last line ends there.
C11_TableRangesAreMaximalRuns ==
    phase = "state" =>
        /\ RangeSet(blockRanges.tables) = MaximalRuns(PipeLines)
        /\ Len(blockRanges.tables) = Cardinality(RangeSet(blockRanges.tables))

\* C11 witness: a run cut off by a code block, and a later run that reaches
\* the last line of the document.
C11_Witness ==
    /\ phase = "state"
    /\ \E r \in RangeSet(blockRanges.tables) : r.end + 1 \in blockRanges.codeBlockLines
    /\ \E r \in RangeSet(blockRanges.tables) : r.end = Len(doc) /\ r.start > 1

\* the ranges of a list lie inside the document, each with start <= end, in
\* ascending order and without overlap
WellFormedRanges(ranges) ==
    /\ \A k \in DOMAIN ranges :
          /\ 1 <= ranges[k].start
          /\ ranges[k].start <= ranges[k].end
          /\ ranges[k].end <= Len(doc)
    /\ \A k \in 1 .. Len(ranges) - 1 : ranges[k].end < ranges[k + 1].start

\* C12: every range list of the index (code blocks, math blocks, tables and
\* the mermaid sublist) has 1 <= start <= end <= line count for each range,
\* and its ranges ascend without overlapping.
C12_RangeListsWellFormed ==
    phase = "state" =>
        /\ WellFormedRanges(blockRanges.codeBlocks)
        /\ WellFormedRanges(blockRanges.mathBlocks)
        /\ WellFormedRanges(blockRanges.tables)
        /\ WellFormedRanges(blockRanges.mermaidBlocks)

\* C12 witness: a malformed document, its last line a fence that nothing
\* closes, with two table ranges before it.
C12_Witness ==
    /\ phase = "state"
    /\ Len(blockRanges.tables) = 2
    /\ \E r \in RangeSet(blockRanges.codeBlocks) : r.start = Len(doc) /\ r.end = Len(doc)

-----------------------------------------------------------------------------
(* Properties of the focus resolver and of the decoration builders *)

\* line n contains offset pos
Contains(n, pos) == lineFrom(doc, n) <= pos /\ pos <= lineTo(doc, n)

\* the lines between the line holding the start and the line holding the end
\* of some selection range
SelectedLines ==
    {l \in Lines :
        \E k \in DOMAIN selection :
            \E a \in Lines, b \in Lines :
                /\ Contains(a, selection[k].from)
                /\ Contains(b, selection[k].to)
                /\ a <= l
                /\ l <= b}

\* some decoration of the set replaces (by a widget or by nothing) line l
Replaced(decorations, l) ==
    \E x \in decorations : x.kind = "replace" /\ x.from = lineFrom(doc, l)

\* line l is replaced by a widget of the given type made from the given content
ReplacedByWidget(decorations, l, type, content, language) ==
    \E x \in decorations :
        /\ x.kind = "replace"
        /\ x.from = lineFrom(doc, l)
        /\ x.to = lineTo(doc, l)
        /\ x.widget.type = type
        /\ x.widget.content = content
        /\ x.widget.language = language

\* line l is replaced by nothing
Elided(decorations, l) ==
    \E x \in decorations :
        /\ x.kind = "replace"
        /\ x.from = lineFrom(doc, l)
        /\ x.to = lineTo(doc, l)
        /\ x.widget.type = "none"

ReplacedByAnyBuilder(l) ==
    \/ Replaced(previewDecorations, l)
    \/ Replaced(codeDecorations, l)
    \/ Replaced(tableDecorations, l)
    \/ Replaced(mathDecorations, l)
    \/ Replaced(mermaidDecorations, l)

\* line l carries the line class in the decoration set
Styled(decorations, l, class) ==
    \E x \in decorations : x.kind = "line" /\ x.from = lineFrom(doc, l) /\ x.class = class

RangeLines(range) == range.start .. range.end

\* every line of the range is raw: styled by its builder and replaced by none
ShownRaw(decorations, range, class) ==
    \A i \in RangeLines(range) : Styled(decorations, i, class) /\ ~ReplacedByAnyBuilder(i)

\* C3: with focus, a table, math block or mermaid block holding a selected
\* line has every line styled with its block class and no line replaced or
\* elided by any builder.
C3_FocusedBlockShownRaw ==
    (phase = "view" /\ hasFocus) =>
        /\ \A r \in RangeSet(blockRanges.tables) :
              RangeLines(r) \cap SelectedLines # {} => ShownRaw(tableDecorations, r, "cm-table-line")
        /\ \A r \in RangeSet(blockRanges.mathBlocks) :
              RangeLines(r) \cap SelectedLines # {} => ShownRaw(mathDecorations, r, "cm-math-block-line")
        /\ \A r \in RangeSet(blockRanges.mermaidBlocks) :
              RangeLines(r) \cap SelectedLines # {} => ShownRaw(mermaidDecorations, r, "cm-mermaid-block-line")

\* the code blocks the code-block builder handles
PlainCodeBlocks == {r \in RangeSet(blockRanges.codeBlocks) : r.language # MermaidLanguage}

AllCollapsed ==
    /\ \A r \in RangeSet(blockRanges.tables) :
          /\ ReplacedByWidget(tableDecorations, r.start, "TableWidget", SubSeq(doc, r.start, r.end), <<>>)
          /\ \A i \in (r.start + 1) .. r.end : Elided(tableDecorations, i)
          /\ \A i \in RangeLines(r) : ~Styled(tableDecorations, i, "cm-table-line")
    /\ \A r \in RangeSet(blockRanges.mathBlocks) :
          /\ ReplacedByWidget(mathDecorations, r.start, "MathBlockWidget",
                              join(SubSeq(doc, r.start + 1, r.end - 1), Newline), <<>>)
          /\ \A i \in (r.start + 1) .. r.end : Elided(mathDecorations, i)
          /\ \A i \in RangeLines(r) : ~Styled(mathDecorations, i, "cm-math-block-line")
    /\ \A r \in RangeSet(blockRanges.mermaidBlocks) :
          /\ ReplacedByWidget(mermaidDecorations, r.start, "MermaidBlockWidget",
                              join(SubSeq(doc, r.start + 1, r.end - 1), Newline), <<>>)
          /\ \A i \in (r.start + 1) .. r.end : Elided(mermaidDecorations, i)
          /\ \A i \in RangeLines(r) : ~Styled(mermaidDecorations, i, "cm-mermaid-block-line")
    /\ \A r \in PlainCodeBlocks :
          \A i \in RangeLines(r) :
              /\ ~Styled(codeDecorations, i, "cm-code-block-line cm-code-block-focused")
              /\ IF i \in {r.start, r.end}
                 THEN Elided(codeDecorations, i) <=> r.end - r.start > 1
                 ELSE Len(doc[i]) > 0 =>
                          ReplacedByWidget(codeDecorations, i, "HighlightedCodeWidget", doc[i], r.language)
    /\ \A i \in Lines :
          (/\ \E k \in DOMAIN visibleRanges :
                 \E a \in Lines, b \in Lines :
                     /\ Contains(a, visibleRanges[k].from)
                     /\ Contains(b, visibleRanges[k].to)
                     /\ a <= i
                     /\ i <= b
           /\ trim(doc[i]) # <<>>
           /\ i \notin blockRanges.codeBlockLines
           /\ i \notin blockRanges.tableLines
           /\ i \notin blockRanges.mathBlockLines)
          => ReplacedByWidget(previewDecorations, i, "MarkdownPreviewWidget", doc[i], <<>>)

\* the view with the selection put at the start of the document
ViewWithCursorAtStart == [currentView EXCEPT !.selection = <<[from |-> 0, to |-> 0]>>]

\* C5: without focus the focused-line set is empty, the decorations of all
\* five builders are those built for any other selection, and every block and
\* every non-empty plain line of the viewport is in its unfocused form.
C5_UnfocusedEditorAllCollapsed ==
    (phase = "view" /\ ~hasFocus) =>
        /\ focusedLinesOf(currentView) = {}
        /\ previewDecorations = buildDecorations(ViewWithCursorAtStart, blockRanges)
        /\ codeDecorations = buildCodeBlockDecorations(ViewWithCursorAtStart, blockRanges)
        /\ tableDecorations = buildTableDecorations(ViewWithCursorAtStart, blockRanges)
        /\ mathDecorations = buildMathBlockDecorations(ViewWithCursorAtStart, blockRanges)
        /\ mermaidDecorations = buildMermaidBlockDecorations(ViewWithCursorAtStart, blockRanges)
        /\ AllCollapsed

\* C5 witness: an unfocused view whose selection lies on the second line of a
\* block that is rendered collapsed.
C5_Witness ==
    /\ phase = "view"
    /\ ~hasFocus
    /\ \E r \in RangeSet(blockRanges.tables) \cup RangeSet(blockRanges.mathBlocks) :
          /\ r.end > r.start
          /\ r.start + 1 \in SelectedLines
          /\ r.start \notin SelectedLines

\* C6: the focused-line set is exactly the set of lines lying between the line
\* of the start and the line of the end of some selection range; the plain
\* lines the focused view leaves unreplaced are exactly those lines.
C6_FocusedLinesAreSelectedLines ==
    phase = "view" =>
        /\ getFocusedLines(currentView) = SelectedLines
        /\ \A l \in Lines :
              trim(doc[l]) # <<>> => (Replaced(previewDecorations, l) <=> l \notin SelectedLines)

\* C6 witness: two selection ranges, one of them covering three lines.
C6_Witness ==
    /\ phase = "view"
    /\ Len(selection) = 2
    /\ \E k \in DOMAIN selection :
          \E a \in Lines, b \in Lines :
              /\ b = a + 2
              /\ Contains(a, selection[k].from)
              /\ Contains(b, selection[k].to)

\* line i lies in a visible range
Visible(i) ==
    \E k \in DOMAIN visibleRanges :
        \E a \in Lines, b \in Lines :
            /\ Contains(a, visibleRanges[k].from)
            /\ Contains(b, visibleRanges[k].to)
            /\ a <= i
            /\ i <= b

\* the focused-line set: the selected lines of a focused editor
FocusedLines == IF hasFocus THEN SelectedLines ELSE {}

\* the lines the plain-line builder renders
PlainRenderedLines ==
    {i \in Lines :
        /\ Visible(i)
        /\ i \notin FocusedLines
        /\ \E c \in 1 .. Len(doc[i]) : doc[i][c] \notin Whitespace
        /\ i \notin blockRanges.codeBlockLines
        /\ i \notin blockRanges.tableLines
        /\ i \notin blockRanges.mathBlockLines}

\* C14: the plain-line builder emits a directive for a line if and only if
\* the line is visible, not focused, not whitespace-only and in none of the
\* code, table and math line sets; the directive replaces exactly the span
\* [line.from, line.to] by the preview widget of the line's text, and nothing
\* else is emitted.
C14_PlainLinesRendered ==
    phase = "view" =>
        LET rendered == PlainRenderedLines
        IN  /\ previewDecorations =
                   {replaceDecoration(MarkdownPreviewWidget(doc[i], lineFrom(doc, i), lineTo(doc, i)),
                                      lineFrom(doc, i), lineTo(doc, i)) : i \in rendered}
            /\ \A i \in Lines : Replaced(previewDecorations, i) <=> i \in rendered

\* C14 witness: a visible blank line left alone beside a rendered line, while
\* a line of text outside the viewport is not rendered.
C14_Witness ==
    /\ phase = "view"
    /\ \E i \in Lines :
          /\ Visible(i)
          /\ i \notin FocusedLines
          /\ doc[i] # <<>>
          /\ trim(doc[i]) = <<>>
          /\ ~Replaced(previewDecorations, i)
    /\ \E i \in Lines : Replaced(previewDecorations, i)
    /\ \E i \in Lines : ~Visible(i) /\ doc[i] = <<" ", "a">>

\* the code blocks of the code-block builder that hold no focused line
UnfocusedCodeBlocks == {r \in PlainCodeBlocks : RangeLines(r) \cap FocusedLines = {}}

\* the lines strictly between the first and the last line of a range
InteriorLines(r) == (r.start + 1) .. (r.end - 1)

C16_EmptyCodeBlockNeverElided ==
    phase = "view" =>
        \A r \in PlainCodeBlocks :
            r.end - r.start <= 1 =>
                \A i \in RangeLines(r) :
                    /\ ~ReplacedByAnyBuilder(i)
                    /\ Styled(codeDecorations, i,
                              IF RangeLines(r) \cap FocusedLines # {}
                              THEN "cm-code-block-line cm-code-block-focused"
                              ELSE "cm-code-block-line")

\* C16 witness: an unfocused pair of fences with nothing between them, in a
\* focused editor whose cursor is elsewhere.
C16_Witness ==
    /\ phase = "view"
    /\ hasFocus
    /\ \E r \in UnfocusedCodeBlocks :
          /\ r.end = r.start + 1
          /\ startsWith(doc[r.end], Fence)

\* some decoration of the set starts on line l
Touched(decorations, l) == \E x \in decorations : x.from = lineFrom(doc, l)

\* C17: the mermaid blocks are exactly the code-block ranges whose language
\* is "mermaid", in order; the lines of a code-block range get decorations
\* from the mermaid builder alone if it is one of them and from the
\* code-block builder alone if not.  An unfocused mermaid block has one
\* widget, on its first line, made of the lines between its first and last
\* line joined by newline, and every later line elided.
C17_MermaidBlocksHandledOnce ==
    /\ phase # "new" =>
          /\ RangeSet(blockRanges.mermaidBlocks) =
                 {r \in RangeSet(blockRanges.codeBlocks) : r.language = MermaidLanguage}
          /\ WellFormedRanges(blockRanges.mermaidBlocks)
    /\ phase = "view" =>
          /\ \A r \in RangeSet(blockRanges.codeBlocks) :
                \A i \in RangeLines(r) :
                    /\ Touched(mermaidDecorations, i) <=> r.language = MermaidLanguage
                    /\ Touched(codeDecorations, i) <=> r.language # MermaidLanguage
          /\ \A r \in RangeSet(blockRanges.mermaidBlocks) :
                RangeLines(r) \cap FocusedLines = {} =>
                    /\ ReplacedByWidget(mermaidDecorations, r.start, "MermaidBlockWidget",
                                        join(SubSeq(doc, r.start + 1, r.end - 1), Newline), <<>>)
                    /\ \A i \in (r.start + 1) .. r.end : Elided(mermaidDecorations, i)
                    /\ Cardinality({x \in mermaidDecorations :
                                       /\ x.widget.type # "none"
                                       /\ \E i \in RangeLines(r) : x.from = lineFrom(doc, i)}) = 1

\* C17 witness: an unfocused mermaid block with two lines between its
\* fences.
C17_Witness ==
    /\ phase = "view"
    /\ \E r \in RangeSet(blockRanges.mermaidBlocks) :
          /\ RangeLines(r) \cap FocusedLines = {}
          /\ r.end - r.start = 3
          /\ doc[r.start + 1] = <<"a">>
          /\ startsWith(doc[r.end], Fence)

\* the widgets the decoration set puts on lines of the range
WidgetsOn(decorations, r) ==
    {x \in decorations :
        /\ x.widget.type # "none"
        /\ \E i \in RangeLines(r) : x.from = lineFrom(doc, i)}

\* C18: for an unfocused table [s, e] the table builder produces exactly one
\* widget, replacing the span of row s and built from the text of every row
\* s..e in order, and elides each of rows s+1..e.
C18_UnfocusedTableCollapsed ==
    phase = "view" =>
        \A r \in RangeSet(blockRanges.tables) :
            RangeLines(r) \cap FocusedLines = {} =>
                /\ WidgetsOn(tableDecorations, r) =
                       {replaceDecoration(TableWidget([k \in 1 .. (r.end - r.start + 1) |->
                                                          doc[r.start + k - 1]],
                                                      lineFrom(doc, r.start), lineTo(doc, r.start)),
                                          lineFrom(doc, r.start), lineTo(doc, r.start))}
                /\ \A i \in (r.start + 1) .. r.end : Elided(tableDecorations, i)
                /\ ~Elided(tableDecorations, r.start)

\* C18 witness: a focused editor with the cursor below an unfocused table of
\* two rows.
C18_Witness ==
    /\ phase = "view"
    /\ hasFocus
    /\ \E r \in RangeSet(blockRanges.tables) :
          /\ r.end = r.start + 1
          /\ RangeLines(r) \cap FocusedLines = {}
          /\ Replaced(tableDecorations, r.start)

\* C19: for an unfocused math block [s, e] the math builder produces exactly
\* one widget, on line s, whose content is lines s+1..e-1 joined by newline
\* (the delimiter lines left out), and elides each of lines s+1..e.
C19_UnfocusedMathBlockCollapsed ==
    phase = "view" =>
        \A r \in RangeSet(blockRanges.mathBlocks) :
            RangeLines(r) \cap FocusedLines = {} =>
                /\ WidgetsOn(mathDecorations, r) =
                       {replaceDecoration(MathBlockWidget(join([k \in 1 .. (r.end - r.start - 1) |->
                                                                  doc[r.start + k]], Newline),
                                                         lineFrom(doc, r.start), lineTo(doc, r.start)),
                                          lineFrom(doc, r.start), lineTo(doc, r.start))}
                /\ \A i \in (r.start + 1) .. r.end : Elided(mathDecorations, i)
                /\ ~Elided(mathDecorations, r.start)

\* C19 witness: an unfocused math block with a line of content between its
\* delimiter lines.
C19_Witness ==
    /\ phase = "view"
    /\ \E r \in RangeSet(blockRanges.mathBlocks) :
          /\ RangeLines(r) \cap FocusedLines = {}
          /\ r.end = r.start + 2
          /\ doc[r.start + 1] = <<"a">>
          /\ Replaced(mathDecorations, r.start)

\* C20: once the view exists, after every update the decorations held by
\* each of the five plugins are what its build function returns for the
\* current document (and its block index), selection, focus flag and visible
\* ranges.
C20_DecorationsAreCurrent ==
    phase = "view" =>
        /\ previewDecorations = buildDecorations(currentView, computeBlockRanges(doc))
        /\ codeDecorations = buildCodeBlockDecorations(currentView, computeBlockRanges(doc))
        /\ tableDecorations = buildTableDecorations(currentView, computeBlockRanges(doc))
        /\ mathDecorations = buildMathBlockDecorations(currentView, computeBlockRanges(doc))
        /\ mermaidDecorations = buildMermaidBlockDecorations(currentView, computeBlockRanges(doc))

\* C20 witness: a focused editor after edits, a selection change and a
\* scroll: two lines, only one of them visible, the cursor off the start, a
\* rendered plain line and a block shown raw.
C20_Witness ==
    /\ phase = "view"
    /\ hasFocus
    /\ Len(doc) = 2
    /\ selection[1].from > 0
    /\ visibleRanges # <<[from |-> 0, to |-> docLength(doc)]>>
    /\ previewDecorations # {}
    /\ codeDecorations \cup tableDecorations \cup mathDecorations # {}

-----------------------------------------------------------------------------
(* Properties of the backlinks panel *)

\* C21: whenever the panel shows a resolver response, it is the response to
\* the latest issued request, and it carries that request's title as long as
\* the document still has a title: under any order of edits and responses a
\* response to an earlier request never replaces what a later request shows.
C21_OnlyLatestResponseShown ==
    panel.domRequest # 0 =>
        /\ panel.domRequest = panel.currentRequest
        /\ panel.lastTitle \notin {NoTitle, << <<>> >>} => panel.domTitle = panel.lastTitle

\* the response to the second request is shown while the first request is
\* still in flight: the responses arrive out of order
C21_Witness ==
    /\ panel.currentRequest = 2
    /\ panel.domRequest = 2
    /\ \E r \in panel.pending : r.requestId = 1

\* C35: whenever the panel exists and no request is in flight, it shows the
\* state of the document's current title: the response to the request for
\* that title (the empty list, "None", if the request failed), or "None" and
\* no response when the document has no title.
C35_PanelShowsCurrentTitle ==
    (panel.created /\ panel.pending = {}) =>
        LET title == resolveTitle(panel, doc)
        IN  IF title = NoTitle \/ title = << <<>> >>
            THEN panel.dom = "None" /\ panel.domRequest = 0
            ELSE /\ panel.dom \in {"Result", "None"}
                 /\ panel.domRequest = panel.currentRequest
                 /\ panel.domTitle = title

\* C36: the request counter never decreases; it advances only in a step whose
\* resolved title differs from the last handled title, and then by the one
\* request issued for that title; a document change that leaves the resolved
\* title as the last handled one leaves the whole panel, its display and its
\* requests in flight included, as it was.
C36_RequestOnlyOnTitleChange ==
    [][/\ panel'.currentRequest >= panel.currentRequest
       /\ panel'.currentRequest # panel.currentRequest =>
            /\ panel'.created
            /\ resolveTitle(panel', doc') # panel.lastTitle
            /\ panel'.currentRequest = panel.currentRequest + 1
            /\ panel'.pending = panel.pending \cup {[requestId |-> panel'.currentRequest,
                                                     title |-> resolveTitle(panel', doc')]}
       /\ (panel.created /\ doc' # doc /\ resolveTitle(panel, doc') = panel.lastTitle) =>
            panel' = panel]_vars

\* the body was edited under a title whose one request has been answered:
\* the edit left the title, the counter and the display alone
C36_Witness ==
    /\ panel.created
    /\ Len(doc) = 4
    /\ panel.currentRequest = 1
    /\ panel.dom = "Result"
    /\ panel.domTitle = resolveTitle(panel, doc)

-----------------------------------------------------------------------------
(* Properties of the frontmatter sheet *)

\* the sheet is on display: the plugin is alive and open
SheetOpen == phase = "view" /\ sheet.isOpen

\* the pairs in the DOM that no removal timer holds
LivePairs == sheet.pairs \ sheet.timers

SheetKept ==
    /\ sheet.scrollLocked <=> SheetOpen
    /\ sheet.escHandler <=> SheetOpen
    /\ Cardinality(LivePairs) <= 1
    /\ LivePairs = IF SheetOpen THEN sheet.current ELSE {}
    /\ SheetOpen => Cardinality(sheet.current) = 1

\* C37: under any order of opening, closing, document changes, timers and
\* destruction, the scroller is locked exactly while the sheet is open, the
\* Escape handler is registered exactly while it is open, at most one pair
\* is live (in the DOM with no removal timer set for it) and it is the open
\* sheet's, and every pair a removal timer holds leaves the DOM, also when
\* the sheet was opened again before the timer fired.
C37_SheetLifecycle ==
    /\ []SheetKept
    /\ \A id \in 1 .. MaxSheetOpens : (id \in sheet.timers) ~> (id \notin sheet.pairs)

\* the sheet is open again while the timer of the pair closed before is
\* still to fire: two pairs are in the DOM
C37_Witness ==
    /\ SheetOpen
    /\ sheet.current = {2}
    /\ 1 \in sheet.timers
    /\ sheet.pairs = {1, 2}

-----------------------------------------------------------------------------
(* Properties of the click handlers *)

\* C22: after two successive checkbox clicks on one line, the line has the
\* text it had before the first of them.
C22_CheckboxRoundTrip ==
    click.branch = "checkbox" /\ click.prior # <<>> =>
        doc[lineAt(doc, click.widget.from)] = click.prior[1]

\* the line the clicked widget stood on, in the document before the click
ClickedLine == lineAt(click.docBefore, click.widget.from)

\* C23: a checkbox click requests exactly one change, over exactly the span
\* of the clicked line, and no selection; the document keeps its other lines
\* and every selection endpoint outside the replaced span stays where it was.
C23_CheckboxClickEditsOnlyItsLine ==
    click.branch = "checkbox" =>
        /\ Len(click.request.changes) = 1
        /\ click.request.changes[1].from = lineFrom(click.docBefore, ClickedLine)
        /\ click.request.changes[1].to = lineTo(click.docBefore, ClickedLine)
        /\ click.request.selection = <<>>
        /\ Len(doc) = Len(click.docBefore)
        /\ \A i \in 1 .. Len(doc) : i # ClickedLine => doc[i] = click.docBefore[i]
        /\ Len(selection) = Len(click.selectionBefore)
        /\ \A k \in DOMAIN selection :
              LET before == click.selectionBefore[k]
                  inside(pos) == /\ click.request.changes[1].from < pos
                                 /\ pos < click.request.changes[1].to
              IN  /\ ~inside(before.from) => selection[k].from = before.from
                  /\ ~inside(before.to) => selection[k].to = before.to

\* a checkbox click changed line 1 of a two-line document while the cursor
\* stood on line 2
C23_Witness ==
    /\ click.branch = "checkbox"
    /\ Len(doc) = 2
    /\ ClickedLine = 1
    /\ doc[1] # click.docBefore[1]
    /\ hasFocus
    /\ selection[1].from > lineTo(doc, 1)

\* the lines that define the footnote of the clicked reference, in the
\* document the click found
DefinitionLines ==
    {i \in 1 .. Len(click.docBefore) :
        /\ Len(click.docBefore[i]) >= 5
        /\ SubSeq(click.docBefore[i], 1, 5) = <<"[", "^", click.event.footnote[1], "]", ":">>}

EditorAsBeforeClick == doc = click.docBefore /\ selection = click.selectionBefore

\* C24: the branch that acts on a click is the first of footnote reference,
\* hyperlink, checkbox whose target the event holds, and the proportional
\* mapper when it holds none; only that branch acts.  A footnote click puts
\* the cursor at the start of the first definition line of its footnote and
\* requests nothing when there is none; a hyperlink click opens the link and
\* requests neither a selection nor an edit.
C24_ClickBranchOrder ==
    click.branch # "none" =>
        LET e == click.event
            req == click.request
        IN  /\ click.branch = (IF e.footnote # <<>> THEN "footnote"
                                ELSE IF e.link THEN "link"
                                ELSE IF e.checkbox THEN "checkbox"
                                ELSE "text")
            /\ req.opened <=> click.branch = "link"
            /\ req.changes # <<>> <=> click.branch = "checkbox"
            /\ req.selection # <<>> => click.branch \in {"footnote", "text"}
            /\ click.branch = "text" => Len(req.selection) = 1
            /\ click.branch = "link" => req.selection = <<>> /\ EditorAsBeforeClick
            /\ click.branch = "footnote" =>
                  IF DefinitionLines = {}
                  THEN req = NoRequest /\ EditorAsBeforeClick
                  ELSE LET first == CHOOSE i \in DefinitionLines :
                                        \A j \in DefinitionLines : i <= j
                       IN  /\ req.selection = <<lineFrom(click.docBefore, first)>>
                           /\ selection = <<[from |-> lineFrom(doc, first),
                                              to |-> lineFrom(doc, first)]>>
                           /\ doc = click.docBefore

\* a click on a footnote reference inside a link, on a line that also holds
\* a checkbox: the footnote branch acted and put the cursor on the
\* definition in line 2
C24_Witness ==
    /\ click.branch = "footnote"
    /\ click.event.link
    /\ includes(click.widget.content, CheckboxInput)
    /\ Len(doc) = 2
    /\ selection = <<[from |-> lineFrom(doc, 2), to |-> lineFrom(doc, 2)]>>
    /\ click.selectionBefore # selection

\* C25: the proportional mapper returns lineFrom + n, where n is 0 when the
\* width is not positive or the text is empty, and else the integer nearest
\* to clamp(clickX / width, 0, 1) * L (halves rounded up); the offset lies in
\* lineFrom .. lineFrom + L for every clickX.
C25_ProportionalMapper ==
    click.branch = "text" =>
        LET L == Len(click.widget.content)
            width == click.event.width
            clickX == click.event.clickX
            clamped == IF clickX < 0 THEN 0 ELSE IF clickX > width THEN width ELSE clickX
            n == click.request.selection[1] - click.widget.from
        IN  /\ n \in 0 .. L
            /\ width <= 0 \/ L = 0 => n = 0
            /\ width > 0 /\ L > 0 =>
                  /\ 2 * n * width - width <= 2 * clamped * L
                  /\ 2 * clamped * L < 2 * n * width + width

\* a click right of the widget lands on the end of the line, a click at half
\* the width of a three-character text after its second character
C25_Witness ==
    /\ click.branch = "text"
    /\ Len(click.widget.content) = 3
    /\ click.event.width = 2
    /\ \/ click.event.clickX = 3 /\ click.request.selection[1] = click.widget.from + 3
       \/ click.event.clickX = 1 /\ click.request.selection[1] = click.widget.from + 2

-----------------------------------------------------------------------------
(* Properties of read-only mode *)

\* C26: a transaction that changes the document without the annotation and
\* finds the editor read-only leaves document and selection as they were; a
\* transaction with the annotation (Add Frontmatter) is applied, read-only or
\* not; a transaction without changes is applied: a cursor move moves the
\* cursor, and a reconfiguration sets read-only mode, so it can be left.
C26_ReadOnlyDropsEdits ==
    LET t == mode.last
        req == t.request
    IN  /\ req.changes # <<>> /\ ~req.annotated /\ t.readOnly =>
              doc = t.docBefore /\ selection = t.selectionBefore
        /\ req.changes # <<>> /\ ~req.annotated /\ ~t.readOnly =>
              doc # t.docBefore
        /\ req.changes # <<>> /\ req.annotated =>
              doc = <<FrontmatterMarker, FrontmatterMarker>> \o t.docBefore
        /\ req.selection # <<>> =>
              /\ doc = t.docBefore
              /\ selection = <<[from |-> req.selection[1], to |-> req.selection[1]]>>
        /\ t.effects # <<>> =>
              /\ mode.views[1].readOnly = t.effects[1]
              /\ doc = t.docBefore /\ selection = t.selectionBefore

\* the editor is read-only, holds the frontmatter that the button added,
\* and has just dropped an edit of line 3
C26_Witness ==
    /\ mode.views[1].readOnly
    /\ mode.last.readOnly
    /\ mode.last.request.changes # <<>>
    /\ ~mode.last.request.annotated
    /\ mode.last.request.changes[1].insert # doc[Len(doc)]
    /\ Len(doc) = 3
    /\ doc[1] = FrontmatterMarker

\* C29: the value toggleReadOnly(view) returned is the read-only state of
\* that view, and isReadOnly() is the read-only state of every editor, the
\* ones created after earlier toggles included.
C29_ReadOnlyFlagMatchesViews ==
    /\ mode.call.name = "toggleReadOnly" =>
          mode.call.returned[1] = mode.views[mode.call.view].readOnly
    /\ \A k \in DOMAIN mode.views : isReadOnly(mode) = mode.views[k].readOnly

-----------------------------------------------------------------------------
(* Properties of the math and mermaid widgets *)

\* the math and mermaid widgets of the current decorations
BlockWidgets ==
    {x.widget : x \in {y \in mathDecorations \cup mermaidDecorations :
                          y.widget.type \in {"MathBlockWidget", "MermaidBlockWidget"}}}

\* the document shows a wrapper for the widget
Displayed(widget) ==
    \E w \in dom.wrappers : w.attached /\ eq(w, widget) /\ w.at = widget.from

\* C27: a failing renderer never propagates: no exception leaves toDOM; a
\* math block KaTeX cannot process shows the math-error payload carrying its
\* raw content; a rejected mermaid render writes the error's message into the
\* wrapper that requested it; and with such failures every plugin still holds
\* the decorations of a fresh build and every math and mermaid widget is drawn.
C27_RendererFailureContained ==
    phase = "view" =>
        /\ ~dom.uncaught
        /\ \A w \in dom.wrappers :
              w.type = "MathBlockWidget" /\ katexThrows(w.content)
                  => w.html = [kind |-> "math-error", of |-> w.content]
        /\ (dom.settled # <<>> /\ ~dom.settled[1].ok /\ dom.settled[1].wrapper.attached)
              => [dom.settled[1].wrapper EXCEPT
                     !.pending = FALSE,
                     !.html = [kind |-> "mermaid-error", of |-> MermaidMessage]] \in dom.wrappers
        /\ previewDecorations = buildDecorations(currentView, computeBlockRanges(doc))
        /\ codeDecorations = buildCodeBlockDecorations(currentView, computeBlockRanges(doc))
        /\ tableDecorations = buildTableDecorations(currentView, computeBlockRanges(doc))
        /\ mathDecorations = buildMathBlockDecorations(currentView, computeBlockRanges(doc))
        /\ mermaidDecorations = buildMermaidBlockDecorations(currentView, computeBlockRanges(doc))
        /\ \A g \in BlockWidgets : Displayed(g)

\* C27 witness: the render of a displayed mermaid block has just been
\* rejected, next to a plain line that is rendered.
C27_Witness ==
    /\ phase = "view"
    /\ dom.settled # <<>>
    /\ ~dom.settled[1].ok
    /\ dom.settled[1].wrapper.attached
    /\ \E x \in previewDecorations : x.kind = "replace" /\ x.widget.type # "none"

\* C28: a render that settles writes only into the wrapper that requested
\* it: every other wrapper stays as it was, a wrapper that has left the
\* document receives nothing that is displayed, and what a displayed mermaid
\* wrapper shows is the diagram of its own content or an error.
C28_LateRenderWritesOnlyItsWrapper ==
    [][(dom'.settled # <<>> /\ dom' # dom) =>
          LET w == dom'.settled[1].wrapper
              written == [w EXCEPT !.pending = FALSE,
                                   !.html = mermaidRender(w.content, dom'.settled[1].ok)]
          IN  /\ w \in dom.wrappers
              /\ w.pending
              /\ \A v \in dom.wrappers \ {w} : v \in dom'.wrappers
              /\ \A v \in dom'.wrappers : v \in dom.wrappers \/ (w.attached /\ v = written)
              /\ \A v \in dom'.wrappers :
                    (v.type = "MermaidBlockWidget" /\ v.attached /\ ~v.pending)
                        => v.html \in {mermaidRender(v.content, TRUE), mermaidRender(v.content, FALSE)}
      ]_vars

\* C28 witness: the render of a wrapper that left the document has just
\* settled while the same block, with other content, is displayed.
C28_Witness ==
    /\ phase = "view"
    /\ dom.settled # <<>>
    /\ ~dom.settled[1].wrapper.attached
    /\ \E v \in dom.wrappers :
          /\ v.type = "MermaidBlockWidget"
          /\ v.attached
          /\ v.at = dom.settled[1].wrapper.at
          /\ v.content # dom.settled[1].wrapper.content

-----------------------------------------------------------------------------
(* Properties of focus mode *)

Blank(l) == trim(doc[l]) = <<>>

\* the paragraph of line l: the maximal run of consecutive non-blank lines
\* around it, bounded by blank lines or the ends of the document
ParagraphOf(l) == {m \in Lines : \A j \in Min(l, m) .. Max(l, m) : ~Blank(j)}

\* the lines of the selection heads
HeadLines == {lineAt(doc, head(selection[k])) : k \in DOMAIN selection}

\* the lines that carry cm-unfocused-line
Dimmed == {l \in Lines : lineDecoration("cm-unfocused-line", lineFrom(doc, l)) \in focusModeDecorations}

\* C30: in a focused editor a line is dimmed exactly when it lies outside
\* the paragraph of every selection head (a blank line that holds a head is
\* left aside: it belongs to no run of non-blank lines); without focus no
\* line is dimmed.
C30_DimmedOutsideHeadParagraphs ==
    phase = "view" =>
        IF hasFocus
        THEN \A l \in Lines \ {h \in HeadLines : Blank(h)} :
                l \in Dimmed <=> l \notin UNION {ParagraphOf(h) : h \in HeadLines}
        ELSE focusModeDecorations = {}

-----------------------------------------------------------------------------
(* Properties across the five builders *)

\* C31: in a focused editor no line that a selection range intersects is the
\* target of a replace decoration (widget or elision) of any of the five
\* builders.
C31_SelectedLinesShownRaw ==
    (phase = "view" /\ hasFocus) =>
        \A l \in SelectedLines : ~ReplacedByAnyBuilder(l)

\* C31 witness: a focused editor whose selection lies on the second line of
\* a table or math block, next to a line that is replaced.
C31_Witness ==
    /\ phase = "view"
    /\ hasFocus
    /\ \E r \in RangeSet(blockRanges.tables) \cup RangeSet(blockRanges.mathBlocks) :
          /\ r.end > r.start
          /\ r.start + 1 \in SelectedLines
          /\ r.start \notin SelectedLines
    /\ \E l \in Lines : ReplacedByAnyBuilder(l)

\* no selection range of a focused editor intersects the block
Unfocused(r) == ~hasFocus \/ RangeLines(r) \cap SelectedLines = {}

\* the lines of the block that are not fence lines
ContentLines(r) == SelectSeq(SubSeq(doc, r.start, r.end), LAMBDA t : ~startsWith(t, Fence))

\* C32: in an unfocused code block every elided line is a fence line, and the
\* widget of an unfocused mermaid block carries every line of the block that
\* is not a fence line, also when the block is unterminated and ends at the
\* last line of the document.
C32_OnlyFenceLinesHidden ==
    phase = "view" =>
        /\ \A r \in PlainCodeBlocks :
              Unfocused(r) =>
                  \A i \in RangeLines(r) : Elided(codeDecorations, i) => startsWith(doc[i], Fence)
        /\ \A r \in RangeSet(blockRanges.mermaidBlocks) :
              Unfocused(r) =>
                  ReplacedByWidget(mermaidDecorations, r.start, "MermaidBlockWidget",
                                   join(ContentLines(r), Newline), <<>>)

\* the replace decorations that target line l, each with the builder it comes from
ReplacingDirectives(l) ==
    UNION {{<<b[1], x>> : x \in {y \in b[2] : y.kind = "replace" /\ y.from = lineFrom(doc, l)}} :
           b \in {<<"plain", previewDecorations>>, <<"code", codeDecorations>>,
                  <<"table", tableDecorations>>, <<"math", mathDecorations>>,
                  <<"mermaid", mermaidDecorations>>}}

\* C33: every line is the target of at most one replace decoration across
\* the five builders.
C33_OneReplacingDirectivePerLine ==
    phase = "view" => \A l \in Lines : Cardinality(ReplacingDirectives(l)) <= 1

\* C34: the selection that a click on a displayed math or mermaid wrapper
\* dispatches is the start of the first line of its block in the document
\* as it is at the click, whatever edits came before and also when the
\* wrapper was kept because eq() held.
C34_ClickLandsOnCurrentBlock ==
    click.branch = "wrapper" => click.request.selection = <<click.widget.from>>


-----------------------------------------------------------------------------
(* Properties of the frontmatter *)

\* the lines after the first that are exactly a closing marker
ClosingLines == {n \in 2 .. Len(doc) : doc[n] \in {FrontmatterMarker, DocumentEndMarker}}

\* the lines after the first whose trimmed text is a closing marker
TrimmedClosingLines == {n \in 2 .. Len(doc) : trim(doc[n]) \in {FrontmatterMarker, DocumentEndMarker}}

\* the lines holding a title: the key at the start, then at least one character
TitleLines == {j \in Lines : startsWith(doc[j], TitleKey) /\ Len(doc[j]) > Len(TitleKey)}

Least(S) == CHOOSE n \in S : \A m \in S : n <= m

=============================================================================
